---- MODULE Spec2Model ----
(***************************************************************************)
(* Model of the image-hosting server's batch pipelines:                    *)
(*   - imageTransfer.js : downloadImage, saveImageToLocal,                 *)
(*                        transferSingleImage, transferImages              *)
(*   - server.js        : POST /api/upload-to-storage, /api/validate-urls  *)
(*   - the repository calls they make (imageDB.create,                     *)
(*     storageDB.getDefaultStorage / getStorage, statsDB.updateDailyStats) *)
(*   - imageTransfer.js : one downloadImage call with its retries          *)
(*   - database.js      : storageDB (create, update, delete, setDefault),  *)
(*                        statsDB, imageDB purge                           *)
(*   - storageService.js: uploadFile / deleteFile and their error texts    *)
(* One behaviour serves one request; Init draws the request, and the       *)
(* handler variable names the sub-model the behaviour belongs to.          *)
(***************************************************************************)
EXTENDS Integers, Sequences, FiniteSets, TLC

(***************************************************************************)
(* Bounds of the model.                                                    *)
(***************************************************************************)
MaxUrls == 4          \* longest url list given to transferImages
MaxFiles == 4         \* longest file list posted to /api/upload-to-storage
MaxValidate == 6      \* longest url list posted to /api/validate-urls

(***************************************************************************)
(* Program constants.                                                      *)
(***************************************************************************)
maxRetries == 3                   \* downloadImage: const maxRetries = 3
SizeLimit == 52428800             \* 50 * 1024 * 1024
concurrency == 3                  \* transferImages: const concurrency = 3
concurrencyLimit == 3             \* upload-to-storage: const concurrencyLimit = 3
validateConcurrency == 5          \* validate-urls: const concurrency = 5

Min(a, b) == IF a < b THEN a ELSE b

(***************************************************************************)
(* Inputs and environment.                                                 *)
(***************************************************************************)
\* The urls a caller may pass: an origin that may answer anything, an origin
\* that always answers 200 image/png with a Content-Length above the limit,
\* and a string that new URL() rejects.
UrlAny == "http://a/1.png"
UrlBig == "http://b/big.png"
UrlMalformed == "not a url"
URLS == {UrlAny, UrlBig, UrlMalformed}

\* a parser that accepts every string
WellFormedAlways(url) == TRUE

\* new URL(originalUrl) throws or not
WellFormed(url) == url # UrlMalformed

\* What axios(config) can settle with.  "rejected" is an axios rejection
\* (network error, timeout, status outside 2xx); otherwise a response with
\* status, content-type header ("" when absent) and content-length header
\* (0 when absent).
NetworkError == [settled |-> "rejected"]
Response(status, ctype, clen) ==
    [settled |-> "response", status |-> status, contentType |-> ctype, contentLength |-> clen]
AnyResponses ==
    {NetworkError,
     Response(204, "image/png", 0),
     Response(200, "text/html", 1), Response(200, "", 0),
     Response(200, "image/png", SizeLimit + 1),
     Response(200, "image/png", 0), Response(200, "image/png", 1)}
OriginAnswers(url) ==
    IF url = UrlBig THEN {Response(200, "image/png", SizeLimit + 1)}
    ELSE IF url = UrlMalformed THEN {NetworkError}     \* axios rejects the url
    ELSE AnyResponses

\* Total number of bytes an origin may stream for a body (whatever it declared).
BodySizes == {1, 2, SizeLimit + 1}

\* Messages of the errors and results (the source's texts are Chinese).
\* A message is the sequence of the parts it is put together from.
MsgInvalidUrl == <<"invalid URL format">>
MsgNetwork == <<"request failed">>
MsgStatus == <<"HTTP status not 200">>
MsgContentType == <<"invalid content type">>
MsgTooLarge == <<"file size exceeds limit (50MB)">>
MsgOk == <<"transfer succeeded">>
NoError == <<"none">>

\* the message of an error that a backend SDK or the database driver throws
ErrorTexts == {"connect ETIMEDOUT"}

\* an adapter that rethrows the SDK's error as it is
AdapterErrorBare(type, text) == <<text>>

\* uploadToS3 and the other adapters: throw new Error(`S3上传错误: ${error.message}`),
\* which uploadFile returns as {success: false, error: error.message}
AdapterError(type, text) == <<type, " upload error: ", text>>

\* transferSingleImage: throw new Error(`转存失败: ${storageError.message}`)
StorageError(message) == <<"transfer failed: ">> \o message
MsgNoDefault == StorageError(<<"no default storage configured">>)
UploadMessages == {StorageError(AdapterError(type, text)) : type \in {"s3"}, text \in ErrorTexts}

\* the messages imageDB.create rejects with
CreateMessages == {<<text>> : text \in ErrorTexts}
ValidationErrors == {MsgContentType, MsgTooLarge}


(***************************************************************************)
(* Repository (database.js): rows and queries.                             *)
(***************************************************************************)
StorageIds == {1, 2}
NoStorage == 0        \* null
Today == "2026-01-02"

\* storage_configs tables the batch may run against: configuration 1 is
\* active, configuration 2 was deactivated; the default is 1 or nobody.
StorageTables ==
    { [id \in StorageIds |-> [type |-> "s3", is_default |-> (id = d), is_active |-> (id = 1)]]
      : d \in {NoStorage, 1} }

\* storageDB.getDefaultStorage: rows[0] of the active default rows, or null
getDefaultStorage(table) ==
    LET rows == {id \in DOMAIN table : table[id].is_default /\ table[id].is_active}
    IN  IF rows # {} THEN CHOOSE id \in rows : \A o \in rows : id <= o ELSE NoStorage

\* storageDB.getStorage(id): the active row with that id, or null
getStorage(table, id) ==
    IF id \in DOMAIN table /\ table[id].is_active THEN id ELSE NoStorage

\* an upsert that overwrites the counters
updateDailyStatsOverwrite(table, date, uploadCount, totalSz, transferCount) ==
    (date :> [upload_count |-> uploadCount, total_size |-> totalSz,
              transfer_count |-> transferCount]) @@ table

\* statsDB.updateDailyStats: insert the date's row or add to it
updateDailyStats(table, date, uploadCount, totalSz, transferCount) ==
    IF date \in DOMAIN table
    THEN [table EXCEPT ![date] =
            [upload_count |-> @.upload_count + uploadCount,
             total_size |-> @.total_size + totalSz,
             transfer_count |-> @.transfer_count + transferCount]]
    ELSE table @@ (date :> [upload_count |-> uploadCount, total_size |-> totalSz,
                            transfer_count |-> transferCount])

\* the day's counters before the request
InitialStats == (Today :> [upload_count |-> 1, total_size |-> 3, transfer_count |-> 1])

(***************************************************************************)
(* State.                                                                  *)
(***************************************************************************)
VARIABLES
    handler,          \* the request served: "transfer", "upload" or "validate"
    crashed,          \* the node process died of an uncaught exception
    storage_configs,  \* table storage_configs
    images,           \* table images
    upload_stats,     \* table upload_stats
    bucket,           \* objects held by the storage backends
    disk,             \* temp files present in uploadDir
    \* transferImages
    urls, tpc, chunkNo, results, successCount, totalSize,
    \* transferSingleImage / downloadImage / saveImageToLocal, per url index
    pc, tempFilePath, streamSize, defaultStorage, itemResult,
    statsCall,        \* how the request's statsDB.updateDailyStats call ended
    \* POST /api/upload-to-storage
    files, storageId, upc, batchStart, uploadedFiles, upSuccessCount, upTotalSize,
    fpc, fileResult,  \* processFile, per file index
    \* POST /api/validate-urls
    vurls, vpc, vchunkNo, vresults,
    vitem, validation, \* validateImageUrl, per url index
    response,         \* what the route handler answered
    \* one call of downloadImage(url), attempt by attempt
    dlUrl, dlpc, dlRetryCount, dlError, dlRequests, dlLog,
    dlSent,           \* the headers of the requests sent, in order
    dlElapsed,        \* ms spent in the call's requests and delays
    DB_TYPE,          \* process.env.DB_TYPE || 'postgres'
    \* storageDB.setDefaultStorage, per client connection of the pool
    sdpc, sdId, sdRows, sdWrites,
    \* statsDB.updateDailyStats, per calling request
    stpc, stArgs,
    stBefore,         \* upload_stats before the calls
    stCalls,          \* the calls made, in the order they were made
    stDone,           \* the calls the database has executed, in that order
    stFailed,         \* a call has rejected
    \* StorageService.uploadFile / deleteFile against one backend
    svConfig, svName, svPath, svpc, svKey, svResult, svDelKey, svDelResult,
    svObjects,        \* the objects the backend holds
    svBefore,         \* the objects it held before uploadFile was called
    svCalls,          \* the adapter calls made
    \* DELETE /api/images/:id/permanent and DELETE /api/images/permanent
    pgRoute, pgIds, pgpc, pgAt,
    pgDeleted,        \* the ids whose record imageDB.permanentDelete removed
    deleteFileCalls,  \* the keys storageService.deleteFile was called with
    stored            \* <<key, id>>: the object was put with the configuration id

dbvars == <<storage_configs, images, upload_stats, bucket, disk>>
tvars == <<urls, tpc, chunkNo, results, successCount, totalSize>>
ivars == <<pc, tempFilePath, streamSize, defaultStorage, itemResult>>
uvars == <<files, storageId, upc, batchStart, uploadedFiles, upSuccessCount, upTotalSize,
           fpc, fileResult>>
vvars == <<vurls, vpc, vchunkNo, vresults, vitem, validation>>
dlvars == <<dlUrl, dlpc, dlRetryCount, dlError, dlRequests, dlLog, dlSent, dlElapsed>>
sdvars == <<sdpc, sdId, sdRows, sdWrites>>
stvars == <<stpc, stArgs, stBefore, stCalls, stDone, stFailed>>
svvars == <<svConfig, svName, svPath, svpc, svKey, svResult, svDelKey, svDelResult,
            svObjects, svBefore, svCalls>>
pgvars == <<pgRoute, pgIds, pgpc, pgAt, pgDeleted, deleteFileCalls>>
rbvars == <<stored>>
morevars == <<DB_TYPE, sdvars, stvars, svvars, pgvars, rbvars>>
vars == <<handler, crashed, dbvars, tvars, ivars, statsCall, uvars, vvars, response, dlvars, morevars>>

NoResult == [settled |-> FALSE]
Items == DOMAIN urls

\* names generated per item (timestamp + random: unique per call)
TempFile(i) == <<"uploads", i>>
ObjectKey(prefix, i) == <<prefix, i>>

(***************************************************************************)
(* downloadImage                                                           *)
(***************************************************************************)
ImageTypes == {"image/png"}      \* content types that start with "image/"

\* the checks without the Content-Length test
CheckResponseNoLength(resp) ==
    IF resp.settled = "rejected" THEN MsgNetwork
    ELSE IF resp.status # 200 THEN MsgStatus
    ELSE IF resp.contentType = "" \/ resp.contentType \notin ImageTypes THEN MsgContentType
    ELSE NoError

\* the checks of the try block: the message of the error thrown, or NoError
CheckResponse(resp) ==
    IF resp.settled = "rejected" THEN MsgNetwork
    ELSE IF resp.status # 200 THEN MsgStatus
    ELSE IF resp.contentType = "" \/ resp.contentType \notin ImageTypes THEN MsgContentType
    ELSE IF resp.contentLength > SizeLimit THEN MsgTooLarge
    ELSE NoError

\* the catch block: retry after a delay, or rethrow
ShouldRetry(retries) == retries < maxRetries

\* transferSingleImage's catch block: the failure result
FailureResult(url, message) == [success |-> FALSE, originalUrl |-> url, message |-> message]

\* transferSingleImage's success result
SuccessResult(url, key, size) ==
    [success |-> TRUE, originalUrl |-> url, newUrl |-> key, size |-> size, message |-> MsgOk]

\* a catch block that leaves the temp file
CleanupSkipped(onDisk, i, pathSet) == onDisk

\* cleanup of the catch block: unlink the temp file when tempFilePath is set
Cleanup(onDisk, i, pathSet) ==
    IF pathSet /\ TempFile(i) \in onDisk THEN onDisk \ {TempFile(i)} ELSE onDisk

\* downloadImage(url, retryCount) as transferSingleImage sees it, one await:
\* the results the call can settle with, over the answers the origin may give
\* to this attempt and to the retries
RECURSIVE DownloadResults(_, _)
DownloadResults(url, retries) ==
    UNION { LET error == CheckResponse(resp) IN
            IF error = NoError
            THEN {[ok |-> TRUE, contentType |-> resp.contentType,
                   contentLength |-> resp.contentLength]}
            ELSE IF ShouldRetry(retries)
            THEN DownloadResults(url, retries + 1)
            ELSE {[ok |-> FALSE, error |-> error]}
          : resp \in OriginAnswers(url) }

\* downloadImage(url): the results of a call with retryCount = 0, per url
downloadImage == [url \in URLS |-> DownloadResults(url, 0)]

\* await downloadImage(originalUrl) settles for item i
DownloadReturns(i) ==
    /\ handler = "transfer" /\ ~crashed
    /\ pc[i] = "downloadImage"
    /\ \E download \in downloadImage[urls[i]] :
        IF download.ok
        THEN \* generateFileName; saveImageToLocal opens the temp file
             /\ pc' = [pc EXCEPT ![i] = "save"]
             /\ disk' = disk \cup {TempFile(i)}
             /\ UNCHANGED itemResult
        ELSE \* the error of the last attempt is caught by transferSingleImage
             /\ pc' = [pc EXCEPT ![i] = "returned"]
             /\ itemResult' = [itemResult EXCEPT ![i] = FailureResult(urls[i], download.error)]
             /\ disk' = Cleanup(disk, i, tempFilePath[i])
    /\ UNCHANGED <<morevars, dlvars, statsCall, uvars, vvars, response, handler, crashed, storage_configs, images, upload_stats, bucket, tvars,
                   tempFilePath, streamSize, defaultStorage>>

(***************************************************************************)
(* saveImageToLocal                                                        *)
(***************************************************************************)
\* the 'data' listener's test on the running total
OverLimit(total) == total > SizeLimit

\* the stream ends within the limit: 'finish' resolves {filePath, fileSize};
\* tempFilePath = filePath; getImageMetadata never throws; the query of
\* storageDB.getDefaultStorage() is sent
StreamFinish(i) ==
    /\ handler = "transfer" /\ ~crashed
    /\ pc[i] = "save"
    /\ \E size \in BodySizes :
        /\ ~OverLimit(size)
        /\ streamSize' = [streamSize EXCEPT ![i] = size]
    /\ tempFilePath' = [tempFilePath EXCEPT ![i] = TRUE]
    /\ pc' = [pc EXCEPT ![i] = "getDefaultStorage"]
    /\ UNCHANGED <<morevars, dlvars, statsCall, uvars, vvars, response, handler, crashed, dbvars, tvars, defaultStorage,
                   itemResult>>

\* a chunk takes the running total over the limit: writeStream.destroy(), then
\* fs.unlinkSync(filePath) removes the file and returns undefined, so that
\* undefined.catch(...) throws a TypeError out of the 'data' listener before
\* reject(...) is reached: an uncaught exception, which ends the process
StreamOverflow(i) ==
    /\ handler = "transfer" /\ ~crashed
    /\ pc[i] = "save"
    /\ \E size \in BodySizes :
        /\ OverLimit(size)
        /\ streamSize' = [streamSize EXCEPT ![i] = size]
    /\ disk' = disk \ {TempFile(i)}
    /\ pc' = [pc EXCEPT ![i] = "aborted"]
    /\ crashed' = TRUE
    /\ UNCHANGED <<morevars, dlvars, statsCall, uvars, vvars, response, handler, storage_configs, images, upload_stats, bucket, tvars,
                   tempFilePath, defaultStorage, itemResult>>

\* the image stream (or the write stream) emits 'error': the same
\* fs.unlinkSync(filePath).catch(...) throws out of the listener (ENOENT when
\* the file was not opened yet, TypeError otherwise); whether the file is on
\* disk when the process ends depends on the order of the open and the unlink
StreamError(i) ==
    /\ handler = "transfer" /\ ~crashed
    /\ pc[i] = "save"
    /\ \E left \in BOOLEAN :
        disk' = IF left THEN disk ELSE disk \ {TempFile(i)}
    /\ pc' = [pc EXCEPT ![i] = "aborted"]
    /\ crashed' = TRUE
    /\ UNCHANGED <<morevars, dlvars, statsCall, uvars, vvars, response, handler, storage_configs, images, upload_stats, bucket, tvars,
                   tempFilePath, streamSize, defaultStorage, itemResult>>

(***************************************************************************)
(* transferSingleImage after the download                                  *)
(***************************************************************************)
\* storageService.uploadFile's possible results for a configuration: the
\* adapter stores the object, or fails (uploadFile never throws)
UploadOutcomes(table, id) ==
    IF id \in DOMAIN table /\ table[id].type \in {"cos", "oss", "qiniu", "upyun", "s3", "minio"}
    THEN {"stored", "failed"} ELSE {"failed"}

\* a record that does not name the transfer
TransferRecordUnmarked(i, url, key, size, storage) ==
    [filename |-> TempFile(i), filePath |-> key, fileUrl |-> key, fileSize |-> size,
     uploadType |-> "cloud", originalUrl |-> "", storageId |-> storage]

\* the record imageDB.create is given by transferSingleImage
TransferRecord(i, url, key, size, storage) ==
    [filename |-> TempFile(i), filePath |-> key, fileUrl |-> key, fileSize |-> size,
     uploadType |-> "transfer", originalUrl |-> url, storageId |-> storage]

\* a lookup result that is never taken for missing
NoDefaultIgnored(found) == FALSE

\* if (!defaultStorage) throw ...
NoDefaultConfigured(found) == found = NoStorage

\* storageDB.getDefaultStorage() returns
GetDefaultStorageReturns(i) ==
    /\ handler = "transfer" /\ ~crashed
    /\ pc[i] = "getDefaultStorage"
    /\ LET found == getDefaultStorage(storage_configs) IN
        /\ defaultStorage' = [defaultStorage EXCEPT ![i] = found]
        /\ IF NoDefaultConfigured(found)
           THEN \* throw inside the inner try, rethrown, caught by the outer catch
                /\ pc' = [pc EXCEPT ![i] = "returned"]
                /\ itemResult' = [itemResult EXCEPT ![i] = FailureResult(urls[i], MsgNoDefault)]
                /\ disk' = Cleanup(disk, i, tempFilePath[i])
                /\ streamSize' = [streamSize EXCEPT ![i] = 0]
           ELSE \* readFileSync, storageService.uploadFile(...) is called
                /\ pc' = [pc EXCEPT ![i] = "uploadFile"]
                /\ UNCHANGED <<itemResult, disk, streamSize>>
    /\ UNCHANGED <<morevars, dlvars, statsCall, uvars, vvars, response, handler, crashed, storage_configs, images, upload_stats, bucket, tvars,
                   tempFilePath>>

\* storageService.uploadFile(storageConfig, fileData, 'transfer/') returns
UploadFileReturns(i) ==
    /\ handler = "transfer" /\ ~crashed
    /\ pc[i] = "uploadFile"
    /\ \E outcome \in UploadOutcomes(storage_configs, defaultStorage[i]) :
        IF outcome = "stored"
        THEN \* uploadResult.success: unlink the temp file, tempFilePath = null,
             \* imageDB.create(...) is called
             /\ bucket' = bucket \cup {ObjectKey("transfer/", i)}
             /\ stored' = stored \cup {<<ObjectKey("transfer/", i), defaultStorage[i]>>}
             /\ disk' = disk \ {TempFile(i)}
             /\ tempFilePath' = [tempFilePath EXCEPT ![i] = FALSE]
             /\ pc' = [pc EXCEPT ![i] = "create"]
             /\ UNCHANGED <<itemResult, streamSize>>
        ELSE /\ pc' = [pc EXCEPT ![i] = "returned"]
             /\ \E text \in ErrorTexts :
                    itemResult' = [itemResult EXCEPT ![i] = FailureResult(urls[i],
                        StorageError(AdapterError(storage_configs[defaultStorage[i]].type, text)))]
             /\ disk' = Cleanup(disk, i, tempFilePath[i])
             /\ streamSize' = [streamSize EXCEPT ![i] = 0]
             /\ UNCHANGED <<bucket, tempFilePath, stored>>
    /\ UNCHANGED <<DB_TYPE, sdvars, stvars, svvars, pgvars, dlvars, statsCall, uvars, vvars, response, handler, crashed, storage_configs, images, upload_stats, tvars,
                   defaultStorage>>

\* a record that names the configuration which is the default when it is written
RecordStorageIdOfDefault(looked, table) == getDefaultStorage(table)

\* storageId: defaultStorage ? defaultStorage.id : null
RecordStorageId(looked, table) == looked

\* a rejected imageDB.create that is swallowed
AfterCreateIgnoringError(url, key, size, createdOk, error) == SuccessResult(url, key, size)

\* what transferSingleImage returns once imageDB.create has settled
AfterCreate(url, key, size, createdOk, error) ==
    IF createdOk THEN SuccessResult(url, key, size) ELSE FailureResult(url, error)

\* imageDB.create(...) settles: the row is inserted, or the query rejects
ImageCreateReturns(i) ==
    /\ handler = "transfer" /\ ~crashed
    /\ pc[i] = "create"
    /\ \E createdOk \in BOOLEAN, error \in CreateMessages :
        /\ images' = IF createdOk
                     THEN images \cup {TransferRecord(i, urls[i], ObjectKey("transfer/", i),
                                          streamSize[i],
                                          RecordStorageId(defaultStorage[i], storage_configs))}
                     ELSE images
        /\ itemResult' = [itemResult EXCEPT ![i] =
                            AfterCreate(urls[i], ObjectKey("transfer/", i), streamSize[i], createdOk,
                                        error)]
        /\ disk' = IF createdOk THEN disk ELSE Cleanup(disk, i, tempFilePath[i])
    /\ streamSize' = [streamSize EXCEPT ![i] = 0]
    /\ pc' = [pc EXCEPT ![i] = "returned"]
    /\ UNCHANGED <<morevars, dlvars, statsCall, uvars, vvars, response, handler, crashed, storage_configs, upload_stats, bucket, tvars,
                   tempFilePath, defaultStorage>>


(***************************************************************************)
(* transferImages                                                          *)
(***************************************************************************)
\* urls.slice(i): a chunk without its end
ChunkUnbounded(k) == {i \in Items : (k - 1) * concurrency < i}

\* chunks.push(urls.slice(i, i + concurrency)): the indices of chunk k (from 1)
Chunk(k) == {i \in Items : (k - 1) * concurrency < i /\ i <= k * concurrency}
NumChunks == (Len(urls) + concurrency - 1) \div concurrency

\* chunk.map(url => transferSingleImage(...)): every call runs to its first
\* await: new URL() throws for a malformed url (the call returns a failure),
\* otherwise downloadImage(url) is called
StartChunk(k) ==
    /\ pc' = [i \in Items |->
                IF i \in Chunk(k)
                THEN IF WellFormed(urls[i]) THEN "downloadImage" ELSE "returned"
                ELSE pc[i]]
    /\ itemResult' = [i \in Items |->
                IF i \in Chunk(k) /\ ~WellFormed(urls[i])
                THEN FailureResult(urls[i], MsgInvalidUrl)
                ELSE itemResult[i]]

\* results.push(...chunkResults.filter(r => r.success)): the failures dropped
RECURSIVE ChunkResultsSuccessOnly(_, _)
ChunkResultsSuccessOnly(from, to) ==
    IF from > to THEN <<>>
    ELSE (IF itemResult[from].success THEN <<itemResult[from]>> ELSE <<>>)
         \o ChunkResultsSuccessOnly(from + 1, to)

\* the results of chunk k in the order Promise.all delivers them
RECURSIVE ChunkResults(_, _)
ChunkResults(from, to) ==
    IF from > to THEN <<>> ELSE <<itemResult[from]>> \o ChunkResults(from + 1, to)

\* successCount++ for every result
CountEvery(rs) == Len(rs)

\* chunkResults.forEach: the successes and their sizes
RECURSIVE CountSuccess(_)
CountSuccess(rs) ==
    IF rs = <<>> THEN 0
    ELSE (IF Head(rs).success THEN 1 ELSE 0) + CountSuccess(Tail(rs))
RECURSIVE SumSize(_)
SumSize(rs) ==
    IF rs = <<>> THEN 0
    ELSE (IF Head(rs).success THEN Head(rs).size ELSE 0) + SumSize(Tail(rs))

\* transferImages(urls, ...) is called
TransferImages ==
    /\ handler = "transfer" /\ ~crashed
    /\ tpc = "call"
    /\ IF NumChunks = 0
       THEN /\ tpc' = "done"
            /\ UNCHANGED <<chunkNo, pc, itemResult>>
       ELSE /\ chunkNo' = 1
            /\ StartChunk(1)
            /\ tpc' = "await_chunk"
    /\ UNCHANGED <<morevars, dlvars, statsCall, uvars, vvars, response, handler, crashed, dbvars, urls, results, successCount, totalSize,
                   tempFilePath, streamSize, defaultStorage>>

\* await Promise.all(chunkPromises) resumes
ChunkSettled ==
    /\ handler = "transfer" /\ ~crashed
    /\ tpc = "await_chunk"
    /\ \A i \in Chunk(chunkNo) : pc[i] = "returned"
    /\ LET from == (chunkNo - 1) * concurrency + 1
           to == Min(chunkNo * concurrency, Len(urls))
           chunkResults == ChunkResults(from, to)
       IN  /\ results' = results \o chunkResults
           /\ successCount' = successCount + CountSuccess(chunkResults)
           /\ totalSize' = totalSize + SumSize(chunkResults)
           /\ tpc' = IF chunkNo < NumChunks THEN "pause"
                     ELSE IF successCount + CountSuccess(chunkResults) > 0
                          THEN "updateDailyStats" ELSE "done"
    /\ UNCHANGED <<morevars, dlvars, statsCall, uvars, vvars, response, handler, crashed, dbvars, urls, chunkNo, ivars>>

\* the 1000 ms pause between chunks is over: the next chunk is started
PauseElapsed ==
    /\ handler = "transfer" /\ ~crashed
    /\ tpc = "pause"
    /\ chunkNo' = chunkNo + 1
    /\ StartChunk(chunkNo + 1)
    /\ tpc' = "await_chunk"
    /\ UNCHANGED <<morevars, dlvars, statsCall, uvars, vvars, response, handler, crashed, dbvars, urls, results, successCount, totalSize,
                   tempFilePath, streamSize, defaultStorage>>

\* statsDB.updateDailyStats(today, 0, totalSize, successCount) settles; a
\* rejection is caught and logged; transferImages returns results
TransferStatsReturns ==
    /\ handler = "transfer" /\ ~crashed
    /\ tpc = "updateDailyStats"
    /\ \E ok \in BOOLEAN :
        /\ upload_stats' = IF ok
                           THEN updateDailyStats(upload_stats, Today, 0, totalSize, successCount)
                           ELSE upload_stats
        /\ statsCall' = IF ok THEN "ok" ELSE "rejected"
    /\ tpc' = "done"
    /\ UNCHANGED <<morevars, dlvars, uvars, vvars, response, handler, crashed, storage_configs, images, bucket, disk, urls, chunkNo,
                   results, successCount, totalSize, ivars>>


(***************************************************************************)
(* POST /api/upload-to-storage                                             *)
(***************************************************************************)
FILES == {[name |-> "a.png", size |-> 1], [name |-> "b.png", size |-> 2]}
FileItems == DOMAIN files
NoResponse == [status |-> 0]

\* res.status(code).json({success: false, message})
ErrorResponse(code, message) == [status |-> code, success |-> FALSE, message |-> message]

\* the record imageDB.create is given by processFile
CloudRecord(k, file, key, storage) ==
    [filename |-> key, filePath |-> key, fileUrl |-> key, fileSize |-> file.size,
     uploadType |-> "cloud", originalUrl |-> "", storageId |-> storage]

\* processFile's results
FileSuccess(k, file, key) ==
    [success |-> TRUE, originalName |-> file.name, size |-> file.size, filename |-> key, index |-> k]
FileFailure(k, file, error) ==
    [success |-> FALSE, originalName |-> file.name, size |-> file.size, error |-> error, index |-> k]

\* what processFile returns once imageDB.create has settled
AfterFileCreate(k, file, key, createdOk, error) ==
    IF createdOk THEN FileSuccess(k, file, key) ELSE FileFailure(k, file, error)

\* files.slice(i, i + concurrencyLimit): the indices of the batch that starts
\* after the first `start` files
Batch(start) == {k \in FileItems : start < k /\ k <= start + concurrencyLimit}

\* batch.map(processFile): storageService.uploadFile(...) is called for each
StartBatch(start) ==
    fpc' = [k \in FileItems |-> IF k \in Batch(start) THEN "uploadFile" ELSE fpc[k]]

\* the handler up to its first await
UploadToStorage ==
    /\ handler = "upload" /\ ~crashed
    /\ upc = "call"
    /\ IF files = <<>>
       THEN /\ response' = ErrorResponse(400, "no files")
            /\ upc' = "responded"
       ELSE IF storageId = NoStorage
       THEN /\ response' = ErrorResponse(400, "no storage chosen")
            /\ upc' = "responded"
       ELSE /\ upc' = "getStorage"
            /\ UNCHANGED response
    /\ UNCHANGED <<morevars, dlvars, handler, crashed, dbvars, tvars, ivars, statsCall, vvars, files, storageId,
                   batchStart, uploadedFiles, upSuccessCount, upTotalSize, fpc, fileResult>>

\* storageDB.getStorage(storageId) settles
GetStorageReturns ==
    /\ handler = "upload" /\ ~crashed
    /\ upc = "getStorage"
    /\ \/ /\ getStorage(storage_configs, storageId) = NoStorage
          /\ response' = ErrorResponse(400, "storage configuration does not exist")
          /\ upc' = "responded"
          /\ UNCHANGED fpc
       \/ /\ getStorage(storage_configs, storageId) # NoStorage
          /\ StartBatch(0)
          /\ upc' = "await_batch"
          /\ UNCHANGED response
       \/ \* the query rejects: the handler's catch answers 500
          /\ response' = ErrorResponse(500, "upload failed")
          /\ upc' = "responded"
          /\ UNCHANGED fpc
    /\ UNCHANGED <<morevars, dlvars, handler, crashed, dbvars, tvars, ivars, statsCall, vvars, files, storageId,
                   batchStart, uploadedFiles, upSuccessCount, upTotalSize, fileResult>>

\* processFile: storageService.uploadFile(...) returns
FileUploadReturns(k) ==
    /\ handler = "upload" /\ ~crashed
    /\ fpc[k] = "uploadFile"
    /\ \E outcome \in UploadOutcomes(storage_configs, storageId) :
        IF outcome = "stored"
        THEN /\ bucket' = bucket \cup {ObjectKey("images/", k)}
             /\ stored' = stored \cup {<<ObjectKey("images/", k), storageId>>}
             /\ fpc' = [fpc EXCEPT ![k] = "create"]
             /\ UNCHANGED fileResult
        ELSE /\ fpc' = [fpc EXCEPT ![k] = "returned"]
             /\ \E text \in ErrorTexts :
                    fileResult' = [fileResult EXCEPT ![k] = FileFailure(k, files[k],
                                      AdapterError(storage_configs[storageId].type, text))]
             /\ UNCHANGED <<bucket, stored>>
    /\ UNCHANGED <<DB_TYPE, sdvars, stvars, svvars, pgvars, dlvars, handler, crashed, storage_configs, images, upload_stats, disk, tvars, ivars,
                   statsCall, vvars, response, files, storageId, upc, batchStart,
                   uploadedFiles, upSuccessCount, upTotalSize>>

\* processFile: imageDB.create(...) settles
FileCreateReturns(k) ==
    /\ handler = "upload" /\ ~crashed
    /\ fpc[k] = "create"
    /\ \E createdOk \in BOOLEAN, error \in CreateMessages :
        /\ images' = IF createdOk
                     THEN images \cup {CloudRecord(k, files[k], ObjectKey("images/", k), storageId)}
                     ELSE images
        /\ fileResult' = [fileResult EXCEPT ![k] =
                            AfterFileCreate(k, files[k], ObjectKey("images/", k), createdOk, error)]
    /\ fpc' = [fpc EXCEPT ![k] = "returned"]
    /\ UNCHANGED <<morevars, dlvars, handler, crashed, storage_configs, upload_stats, bucket, disk, tvars, ivars,
                   statsCall, vvars, response, files, storageId, upc, batchStart,
                   uploadedFiles, upSuccessCount, upTotalSize>>


\* the settled results of the files start+1 .. to, in the order of the batch
RECURSIVE BatchResults(_, _)
BatchResults(from, to) ==
    IF from > to THEN <<>> ELSE <<fileResult[from]>> \o BatchResults(from + 1, to)

\* uploadedFiles.sort((a, b) => a.index - b.index)
RECURSIVE Insert(_, _)
Insert(r, sorted) ==
    IF sorted = <<>> THEN <<r>>
    ELSE IF r.index < Head(sorted).index THEN <<r>> \o sorted
    ELSE <<Head(sorted)>> \o Insert(r, Tail(sorted))
RECURSIVE SortByIndex(_)
SortByIndex(rs) ==
    IF rs = <<>> THEN <<>> ELSE Insert(rs[Len(rs)], SortByIndex(SubSeq(rs, 1, Len(rs) - 1)))

\* uploadedFiles.forEach(file => delete file.index)
DeleteIndex(rs) ==
    [n \in DOMAIN rs |-> [f \in (DOMAIN rs[n]) \ {"index"} |-> rs[n][f]]]

\* res.json({success, message, data, summary})
UploadResponse(data, nSuccess, nTotal, size) ==
    [status |-> 200, success |-> (nSuccess > 0), data |-> data,
     summary |-> [total |-> nTotal, success |-> nSuccess, failed |-> nTotal - nSuccess,
                  totalSize |-> size]]

\* await Promise.allSettled(batchPromises) resumes: the results are pushed and
\* counted, and the loop starts the next batch or the handler finishes
BatchSettled ==
    /\ handler = "upload" /\ ~crashed
    /\ upc = "await_batch"
    /\ \A k \in Batch(batchStart) : fpc[k] = "returned"
    /\ LET to == Min(batchStart + concurrencyLimit, Len(files))
           batchResults == BatchResults(batchStart + 1, to)
           pushed == uploadedFiles \o batchResults
           nSuccess == upSuccessCount + CountSuccess(batchResults)
           size == upTotalSize + SumSize(batchResults)
       IN  /\ upSuccessCount' = nSuccess
           /\ upTotalSize' = size
           /\ IF batchStart + concurrencyLimit < Len(files)
              THEN /\ batchStart' = batchStart + concurrencyLimit
                   /\ StartBatch(batchStart + concurrencyLimit)
                   /\ uploadedFiles' = pushed
                   /\ UNCHANGED <<upc, response>>
              ELSE /\ uploadedFiles' = DeleteIndex(SortByIndex(pushed))
                   /\ UNCHANGED <<batchStart, fpc>>
                   /\ IF nSuccess > 0
                      THEN /\ upc' = "updateDailyStats"
                           /\ UNCHANGED response
                      ELSE /\ upc' = "responded"
                           /\ response' = UploadResponse(DeleteIndex(SortByIndex(pushed)),
                                                         nSuccess, Len(files), size)
    /\ UNCHANGED <<morevars, dlvars, handler, crashed, dbvars, tvars, ivars, statsCall, vvars, files, storageId,
                   fileResult>>

\* statsDB.updateDailyStats(today, successCount, totalSize, 0) settles: the
\* handler answers, or its catch answers 500 when the call rejects
UploadStatsReturns ==
    /\ handler = "upload" /\ ~crashed
    /\ upc = "updateDailyStats"
    /\ \E ok \in BOOLEAN :
        /\ upload_stats' = IF ok
                           THEN updateDailyStats(upload_stats, Today, upSuccessCount, upTotalSize, 0)
                           ELSE upload_stats
        /\ statsCall' = IF ok THEN "ok" ELSE "rejected"
        /\ response' = IF ok
                       THEN UploadResponse(uploadedFiles, upSuccessCount, Len(files), upTotalSize)
                       ELSE ErrorResponse(500, "upload failed")
    /\ upc' = "responded"
    /\ UNCHANGED <<morevars, dlvars, handler, crashed, storage_configs, images, bucket, disk, tvars, ivars, vvars,
                   files, storageId, batchStart, uploadedFiles, upSuccessCount, upTotalSize,
                   fpc, fileResult>>

(***************************************************************************)
(* POST /api/validate-urls                                                 *)
(***************************************************************************)
VUrlItems == DOMAIN vurls

\* what the HEAD request of validateImageUrl can settle with
HeadAnswers ==
    {NetworkError, Response(200, "image/png", 1), Response(200, "text/html", 0),
     Response(204, "", 0)}

\* validateImageUrl: {valid, contentType, contentLength} or {valid: false, error}
validateImageUrl(url, resp) ==
    IF resp.settled = "rejected"
    THEN [url |-> url, valid |-> FALSE, error |-> MsgNetwork]
    ELSE [url |-> url,
          valid |-> (resp.status = 200 /\ resp.contentType # ""
                     /\ resp.contentType \in ImageTypes),
          contentType |-> resp.contentType, contentLength |-> resp.contentLength]

\* the indices of chunk k (from 1) of urls.slice(i, i + concurrency)
VChunk(k) ==
    {i \in VUrlItems : (k - 1) * validateConcurrency < i /\ i <= k * validateConcurrency}
VNumChunks == (Len(vurls) + validateConcurrency - 1) \div validateConcurrency

\* chunk.map(async url => validateImageUrl(url.trim())): the HEAD requests are sent
StartVChunk(k) ==
    vitem' = [i \in VUrlItems |-> IF i \in VChunk(k) THEN "head" ELSE vitem[i]]

RECURSIVE VChunkResults(_, _)
VChunkResults(from, to) ==
    IF from > to THEN <<>> ELSE <<validation[from]>> \o VChunkResults(from + 1, to)

\* the handler up to its first await
ValidateUrls ==
    /\ handler = "validate" /\ ~crashed
    /\ vpc = "call"
    /\ IF vurls = <<>>
       THEN /\ response' = ErrorResponse(400, "no urls")
            /\ vpc' = "responded"
            /\ UNCHANGED <<vchunkNo, vitem>>
       ELSE /\ vchunkNo' = 1
            /\ StartVChunk(1)
            /\ vpc' = "await_chunk"
            /\ UNCHANGED response
    /\ UNCHANGED <<morevars, dlvars, handler, crashed, dbvars, tvars, ivars, statsCall, uvars, vurls, vresults,
                   validation>>

\* the HEAD request of url i settles
HeadSettles(i) ==
    /\ handler = "validate" /\ ~crashed
    /\ vitem[i] = "head"
    /\ \E resp \in HeadAnswers :
        validation' = [validation EXCEPT ![i] = validateImageUrl(vurls[i], resp)]
    /\ vitem' = [vitem EXCEPT ![i] = "returned"]
    /\ UNCHANGED <<morevars, dlvars, handler, crashed, dbvars, tvars, ivars, statsCall, uvars, vurls, vpc,
                   vchunkNo, vresults, response>>

\* await Promise.all(chunkPromises) resumes: the next chunk starts, or the
\* handler answers
VChunkSettled ==
    /\ handler = "validate" /\ ~crashed
    /\ vpc = "await_chunk"
    /\ \A i \in VChunk(vchunkNo) : vitem[i] = "returned"
    /\ LET from == (vchunkNo - 1) * validateConcurrency + 1
           to == Min(vchunkNo * validateConcurrency, Len(vurls))
           pushed == vresults \o VChunkResults(from, to)
       IN  /\ vresults' = pushed
           /\ IF vchunkNo < VNumChunks
              THEN /\ vchunkNo' = vchunkNo + 1
                   /\ StartVChunk(vchunkNo + 1)
                   /\ UNCHANGED <<vpc, response>>
              ELSE /\ vpc' = "responded"
                   /\ response' = [status |-> 200, success |-> TRUE, data |-> pushed]
                   /\ UNCHANGED <<vchunkNo, vitem>>
    /\ UNCHANGED <<morevars, dlvars, handler, crashed, dbvars, tvars, ivars, statsCall, uvars, vurls, validation>>

(***************************************************************************)
(* downloadImage, attempt by attempt                                       *)
(***************************************************************************)
\* createRequestConfig(url).headers: the browser-like headers and, when the
\* url has a hostname, the Referer `https://${domain}/`
BrowserHeaders ==
    {"User-Agent", "Accept", "Accept-Language", "Accept-Encoding", "Cache-Control", "Pragma",
     "Sec-Fetch-Dest", "Sec-Fetch-Mode", "Sec-Fetch-Site"}
createRequestConfig(url) ==
    [h \in BrowserHeaders \cup (IF WellFormed(url) THEN {"Referer"} ELSE {}) |->
        IF h = "Referer" THEN <<"https://", url, "/">> ELSE <<h>>]

\* every attempt sends the headers of createRequestConfig
RequestHeadersUnchanged(url, retryCount) == createRequestConfig(url)

\* the headers of the attempt with this retryCount: Referer set to '' on the
\* first retry, User-Agent alone on the second, those of createRequestConfig
\* otherwise
RequestHeaders(url, retryCount) ==
    IF retryCount = 1
    THEN [h \in DOMAIN createRequestConfig(url) \cup {"Referer"} |->
            IF h = "Referer" THEN <<>> ELSE createRequestConfig(url)[h]]
    ELSE IF retryCount = 2 THEN [h \in {"User-Agent"} |-> <<h>>]
    ELSE createRequestConfig(url)

\* the headers that carry a value
Sent(headers) == {h \in DOMAIN headers : headers[h] # <<>>}
Sends(headers, name) == name \in Sent(headers)

\* an origin with hotlink protection: 403 to a request that carries a Referer
\* value, 200 with an image to a request without one
UrlHotlink == "http://c/hotlink.png"
OriginAnswersTo(url, headers) ==
    IF url = UrlHotlink
    THEN IF Sends(headers, "Referer")
         THEN {Response(403, "text/html", 0)} ELSE {Response(200, "image/png", 1)}
    ELSE OriginAnswers(url)

\* createRequestConfig: timeout: 30000 (ms); axios rejects a request that
\* has taken that long
timeout == 30000

\* how long a request can take to settle with this answer
Durations(resp) == IF resp.settled = "rejected" THEN {100, timeout} ELSE {100}

\* setTimeout(resolve, (retryCount + 1) * 1000)
Backoff(retryCount) == (retryCount + 1) * 1000

\* a call that rejects with the error of its first attempt
RethrownFirst(first, last) == first

\* throw error, at the end of the catch block of the last attempt: the
\* rejection that return downloadImage(url, retryCount + 1) hands down
Rethrown(first, last) == last

\* downloadImage(url) is called: createRequestConfig, axios(config) is sent
DownloadImage ==
    /\ handler = "download"
    /\ dlpc = "call"
    /\ dlRequests' = dlRequests + 1
    /\ dlSent' = Append(dlSent, RequestHeaders(dlUrl, dlRetryCount))
    /\ dlpc' = "axios"
    /\ UNCHANGED <<morevars, handler, crashed, dbvars, tvars, ivars, statsCall, uvars, vvars, response,
                   dlUrl, dlRetryCount, dlError, dlLog, dlElapsed>>

\* axios(config) settles: the checks pass and the call returns, or the catch
\* block waits (retryCount + 1) * 1000 ms, or it rethrows
DlAxiosSettles ==
    /\ handler = "download"
    /\ dlpc = "axios"
    /\ \E resp \in OriginAnswersTo(dlUrl, dlSent[Len(dlSent)]) :
        LET error == CheckResponse(resp) IN
        /\ \E ms \in Durations(resp) : dlElapsed' = dlElapsed + ms
        /\ dlLog' = Append(dlLog, error)
        /\ dlError' = IF error = NoError THEN NoError
                       ELSE Rethrown(IF dlLog = <<>> THEN error ELSE dlLog[1], error)
        /\ dlpc' = IF error = NoError THEN "returned"
                   ELSE IF ShouldRetry(dlRetryCount) THEN "backoff"
                   ELSE "thrown"
    /\ UNCHANGED <<morevars, handler, crashed, dbvars, tvars, ivars, statsCall, uvars, vvars, response,
                   dlUrl, dlRetryCount, dlRequests, dlSent>>

\* the delay is over: return downloadImage(url, retryCount + 1), whose
\* request is sent
DlBackoffElapsed ==
    /\ handler = "download"
    /\ dlpc = "backoff"
    /\ dlRetryCount' = dlRetryCount + 1
    /\ dlRequests' = dlRequests + 1
    /\ dlSent' = Append(dlSent, RequestHeaders(dlUrl, dlRetryCount + 1))
    /\ dlElapsed' = dlElapsed + Backoff(dlRetryCount)
    /\ dlpc' = "axios"
    /\ UNCHANGED <<morevars, handler, crashed, dbvars, tvars, ivars, statsCall, uvars, vvars, response,
                   dlUrl, dlError, dlLog>>

(***************************************************************************)
(* storageDB: createStorage, updateStorage, setDefaultStorage,             *)
(* deleteStorage, called by concurrent requests.  On SQLite every call is  *)
(* synchronous.  On PostgreSQL a single statement goes through the pool    *)
(* and commits on its own; setDefaultStorage runs BEGIN, two UPDATEs and   *)
(* COMMIT on one client, at the default isolation level (READ COMMITTED):  *)
(* an UPDATE sees the rows committed when it starts, waits for a row that  *)
(* another transaction has written, and then tests its WHERE clause again  *)
(* on the row's latest version.                                            *)
(***************************************************************************)
MaxClients == 2       \* concurrent requests to the storage routes
MaxStorages == 3      \* rows of storage_configs
Clients == 1..MaxClients
StorageTypes == {"cos", "s3"}
NoWrites == <<>>

\* initializeDatabase: the one default configuration it inserts
InitialStorages == <<[type |-> "cos", is_default |-> TRUE, is_active |-> TRUE]>>

\* INSERT INTO storage_configs (name, type, config): the column defaults
NewStorage(type) == [type |-> type, is_default |-> FALSE, is_active |-> TRUE]

\* the table as client c sees its latest row versions: its own writes over
\* the committed rows
Latest(c) ==
    [id \in DOMAIN storage_configs |->
        IF id \in DOMAIN sdWrites[c] THEN sdWrites[c][id] ELSE storage_configs[id]]

\* the row was written by a transaction of another client that is still open
LockedByOther(c, id) == \E o \in Clients \ {c} : id \in DOMAIN sdWrites[o]
Locked(id) == \E o \in Clients : id \in DOMAIN sdWrites[o]

\* UPDATE storage_configs SET is_default = 0 WHERE is_default = 1
ClearDefault(table) ==
    [id \in DOMAIN table |-> [table[id] EXCEPT !.is_default = FALSE]]

\* UPDATE storage_configs SET is_default = 1 WHERE id = ? AND is_active = 1:
\* the rows it changes
DefaultTargets(table, id) == {r \in DOMAIN table : r = id /\ table[r].is_active}

\* the two updates run without a transaction: nothing undoes the first
setDefaultStorageNoTransaction(table, id) ==
    IF DefaultTargets(table, id) = {} THEN ClearDefault(table)
    ELSE [ClearDefault(table) EXCEPT ![id].is_default = TRUE]

\* setDefaultStorage on SQLite: db.transaction(...)() either commits both
\* updates or, when info.changes === 0, throws and rolls back
setDefaultStorageSqlite(table, id) ==
    IF DefaultTargets(table, id) = {} THEN table
    ELSE [ClearDefault(table) EXCEPT ![id].is_default = TRUE]

\* a soft delete that does not look at is_default
deleteStorageAny(table, id) ==
    IF id \in DOMAIN table THEN [table EXCEPT ![id].is_active = FALSE] ELSE table

\* UPDATE storage_configs SET is_active = false WHERE id = $1 AND is_default = false
deleteStorage(table, id) ==
    IF id \in DOMAIN table /\ ~table[id].is_default
    THEN [table EXCEPT ![id].is_active = FALSE] ELSE table

\* UPDATE storage_configs SET name, type, config WHERE id = $1 AND is_active = true
updateStorage(table, id, type) ==
    IF id \in DOMAIN table /\ table[id].is_active
    THEN [table EXCEPT ![id].type = type] ELSE table

\* storageDB.createStorage(name, type, config)
CreateStorage ==
    /\ handler = "storage"
    /\ Len(storage_configs) < MaxStorages
    /\ \E type \in StorageTypes : storage_configs' = Append(storage_configs, NewStorage(type))
    /\ UNCHANGED <<rbvars, pgvars, svvars, stvars, DB_TYPE, sdvars, handler, crashed, images, upload_stats, bucket, disk, tvars,
                   ivars, statsCall, uvars, vvars, response, dlvars>>

\* storageDB.updateStorage(id, name, type, config): one statement, which
\* waits while a transaction holds the row
UpdateStorage ==
    /\ handler = "storage"
    /\ \E id \in 1..MaxStorages, type \in StorageTypes :
        /\ ~Locked(id)
        /\ storage_configs' = updateStorage(storage_configs, id, type)
    /\ UNCHANGED <<rbvars, pgvars, svvars, stvars, DB_TYPE, sdvars, handler, crashed, images, upload_stats, bucket, disk, tvars,
                   ivars, statsCall, uvars, vvars, response, dlvars>>

\* storageDB.deleteStorage(id): one statement, which waits while a
\* transaction holds the row
DeleteStorage ==
    /\ handler = "storage"
    /\ \E id \in 1..MaxStorages :
        /\ ~Locked(id)
        /\ storage_configs' = deleteStorage(storage_configs, id)
    /\ UNCHANGED <<rbvars, pgvars, svvars, stvars, DB_TYPE, sdvars, handler, crashed, images, upload_stats, bucket, disk, tvars,
                   ivars, statsCall, uvars, vvars, response, dlvars>>

\* storageDB.setDefaultStorage(id) is called by a request.  SQLite: the whole
\* transaction runs before the call returns its promise, which is rejected
\* when the transaction threw.  PostgreSQL: pool.connect(),
\* BEGIN, and the first UPDATE is sent: it takes the rows that are default in
\* the committed table.
SetDefaultStorage(c) ==
    /\ handler = "storage"
    /\ sdpc[c] = "idle"
    /\ \E id \in 1..MaxStorages :
        /\ IF DB_TYPE = "sqlite"
           THEN /\ storage_configs' = setDefaultStorageSqlite(storage_configs, id)
                /\ sdpc' = [sdpc EXCEPT ![c] =
                              IF DefaultTargets(storage_configs, id) = {} THEN "threw"
                              ELSE "returned"]
                /\ sdId' = [sdId EXCEPT ![c] = id]
                /\ UNCHANGED sdRows
           ELSE /\ sdpc' = [sdpc EXCEPT ![c] = "clear"]
                /\ sdId' = [sdId EXCEPT ![c] = id]
                /\ sdRows' = [sdRows EXCEPT ![c] =
                                {r \in DOMAIN storage_configs : storage_configs[r].is_default}]
                /\ UNCHANGED storage_configs
    /\ UNCHANGED <<rbvars, pgvars, svvars, stvars, DB_TYPE, sdWrites, handler, crashed, images, upload_stats, bucket, disk, tvars,
                   ivars, statsCall, uvars, vvars, response, dlvars>>

\* SQLite: the request that awaits the call resumes, in its try block or in
\* its catch block
SetDefaultSettles(c) ==
    /\ handler = "storage"
    /\ sdpc[c] \in {"threw", "returned"}
    /\ sdpc' = [sdpc EXCEPT ![c] = "idle"]
    /\ sdId' = [sdId EXCEPT ![c] = NoStorage]
    /\ UNCHANGED <<rbvars, pgvars, svvars, stvars, DB_TYPE, sdRows, sdWrites, handler, crashed, dbvars, tvars,
                   ivars, statsCall, uvars, vvars, response, dlvars>>

\* the first UPDATE completes: no row it took is held by another transaction;
\* the rows that are still default in their latest version are written.  The
\* second UPDATE is sent: it takes row id when the row is active.
ClearDefaultDone(c) ==
    /\ handler = "storage"
    /\ sdpc[c] = "clear"
    /\ \A r \in sdRows[c] : ~LockedByOther(c, r)
    /\ LET hit == {r \in sdRows[c] : storage_configs[r].is_default}
           written == [r \in hit |-> [storage_configs[r] EXCEPT !.is_default = FALSE]]
           seen == [r \in DOMAIN storage_configs |->
                       IF r \in hit THEN written[r] ELSE storage_configs[r]]
       IN  /\ sdWrites' = [sdWrites EXCEPT ![c] = written]
           /\ sdRows' = [sdRows EXCEPT ![c] = DefaultTargets(seen, sdId[c])]
    /\ sdpc' = [sdpc EXCEPT ![c] = "set"]
    /\ UNCHANGED <<rbvars, pgvars, svvars, stvars, DB_TYPE, sdId, handler, crashed, dbvars, tvars,
                   ivars, statsCall, uvars, vvars, response, dlvars>>

\* the second UPDATE completes: the row is written when its latest version is
\* still active, and COMMIT is sent; with no row changed the code throws and
\* ROLLBACK is sent
SetDefaultDone(c) ==
    /\ handler = "storage"
    /\ sdpc[c] = "set"
    /\ \A r \in sdRows[c] : ~LockedByOther(c, r)
    /\ LET hit == {r \in sdRows[c] : Latest(c)[r].is_active} IN
        IF hit = {}
        THEN /\ sdpc' = [sdpc EXCEPT ![c] = "rollback"]
             /\ UNCHANGED sdWrites
        ELSE /\ sdpc' = [sdpc EXCEPT ![c] = "commit"]
             /\ sdWrites' = [sdWrites EXCEPT ![c] =
                    [r \in DOMAIN sdWrites[c] \cup hit |->
                        [Latest(c)[r] EXCEPT !.is_default = (r \in hit) \/ @]]]
    /\ UNCHANGED <<rbvars, pgvars, svvars, stvars, DB_TYPE, sdId, sdRows, handler, crashed, dbvars, tvars,
                   ivars, statsCall, uvars, vvars, response, dlvars>>

\* COMMIT: the transaction's row versions become the committed ones and its
\* rows are released; client.release()
Commit(c) ==
    /\ handler = "storage"
    /\ sdpc[c] = "commit"
    /\ storage_configs' = Latest(c)
    /\ sdWrites' = [sdWrites EXCEPT ![c] = NoWrites]
    /\ sdRows' = [sdRows EXCEPT ![c] = {}]
    /\ sdpc' = [sdpc EXCEPT ![c] = "idle"]
    /\ sdId' = [sdId EXCEPT ![c] = NoStorage]
    /\ UNCHANGED <<rbvars, pgvars, svvars, stvars, DB_TYPE, handler, crashed, images, upload_stats, bucket, disk, tvars,
                   ivars, statsCall, uvars, vvars, response, dlvars>>

\* ROLLBACK: the transaction's row versions are dropped; the error is rethrown
Rollback(c) ==
    /\ handler = "storage"
    /\ sdpc[c] = "rollback"
    /\ sdWrites' = [sdWrites EXCEPT ![c] = NoWrites]
    /\ sdRows' = [sdRows EXCEPT ![c] = {}]
    /\ sdpc' = [sdpc EXCEPT ![c] = "idle"]
    /\ sdId' = [sdId EXCEPT ![c] = NoStorage]
    /\ UNCHANGED <<rbvars, pgvars, svvars, stvars, DB_TYPE, handler, crashed, dbvars, tvars,
                   ivars, statsCall, uvars, vvars, response, dlvars>>

(***************************************************************************)
(* statsDB.updateDailyStats, called by concurrent requests.                *)
(***************************************************************************)
MaxCalls == 3         \* calls of updateDailyStats in a run
Tomorrow == "2026-01-03"
Dates == {Today, Tomorrow}
Increments == {[uploadCount |-> 1, totalSize |-> 100, transferCount |-> 0],
               [uploadCount |-> 0, totalSize |-> 3, transferCount |-> 2]}
StatsArgs == [date : Dates, inc : Increments]
NoArgs == [date |-> ""]
NoStats == <<>>       \* upload_stats without a row

\* every select finds no row
SelectNothing(table, date) == FALSE

\* existing = SELECT id FROM upload_stats WHERE date = ?
SelectStats(table, date) == date \in DOMAIN table

\* updateDailyStats on SQLite: select, then UPDATE the counters or INSERT the
\* row; date is UNIQUE, so that an INSERT for a date that has a row throws
updateDailyStatsSqlite(table, date, uploadCount, totalSz, transferCount) ==
    IF SelectStats(table, date)
    THEN [ok |-> TRUE,
          table |-> [table EXCEPT ![date] =
                        [upload_count |-> @.upload_count + uploadCount,
                         total_size |-> @.total_size + totalSz,
                         transfer_count |-> @.transfer_count + transferCount]]]
    ELSE IF date \in DOMAIN table
    THEN [ok |-> FALSE, table |-> table]
    ELSE [ok |-> TRUE,
          table |-> table @@ (date :> [upload_count |-> uploadCount, total_size |-> totalSz,
                                       transfer_count |-> transferCount])]

\* a request calls statsDB.updateDailyStats(date, ...).  SQLite: the function
\* has no await, its three statements run before the call returns.
\* PostgreSQL: the upsert is sent through the pool.
UpdateDailyStats(c) ==
    /\ handler = "stats"
    /\ stpc[c] = "idle"
    /\ Len(stCalls) < MaxCalls
    /\ \E args \in StatsArgs :
        /\ stCalls' = Append(stCalls, args)
        /\ IF DB_TYPE = "sqlite"
           THEN LET run == updateDailyStatsSqlite(upload_stats, args.date, args.inc.uploadCount,
                                                  args.inc.totalSize, args.inc.transferCount)
                IN  /\ upload_stats' = run.table
                    /\ stFailed' = (stFailed \/ ~run.ok)
                    /\ stDone' = IF run.ok THEN Append(stDone, args) ELSE stDone
                    /\ UNCHANGED <<stpc, stArgs>>
           ELSE /\ stpc' = [stpc EXCEPT ![c] = "query"]
                /\ stArgs' = [stArgs EXCEPT ![c] = args]
                /\ UNCHANGED <<upload_stats, stFailed, stDone>>
    /\ UNCHANGED <<rbvars, pgvars, svvars, DB_TYPE, sdvars, stBefore, handler, crashed, storage_configs, images, bucket,
                   disk, tvars, ivars, statsCall, uvars, vvars, response, dlvars>>

\* PostgreSQL executes INSERT ... ON CONFLICT (date) DO UPDATE, one statement
UpsertDone(c) ==
    /\ handler = "stats"
    /\ stpc[c] = "query"
    /\ upload_stats' = updateDailyStats(upload_stats, stArgs[c].date, stArgs[c].inc.uploadCount,
                                        stArgs[c].inc.totalSize, stArgs[c].inc.transferCount)
    /\ stDone' = Append(stDone, stArgs[c])
    /\ stpc' = [stpc EXCEPT ![c] = "idle"]
    /\ stArgs' = [stArgs EXCEPT ![c] = NoArgs]
    /\ UNCHANGED <<rbvars, pgvars, svvars, DB_TYPE, sdvars, stBefore, stCalls, stFailed, handler, crashed, storage_configs, images,
                   bucket, disk, tvars, ivars, statsCall, uvars, vvars, response, dlvars>>

(***************************************************************************)
(* StorageService (services/storageService.js): uploadFile, deleteFile and *)
(* the six adapters; extractFileNameFromUrl (routes/images.js).  A url is  *)
(* an origin and the segments of its path; an object key is the sequence   *)
(* of its segments between the slashes.                                    *)
(***************************************************************************)
supportedTypes == {"cos", "oss", "qiniu", "upyun", "s3", "minio"}
AllTypes == supportedTypes \cup {"local"}

Url(origin, path) == [origin |-> origin, path |-> path]
NoUrl == [origin |-> <<>>]         \* an unset customDomain or endpoint

\* `${base}/${fileName}`
Join(base, fileName) == Url(base.origin, base.path \o fileName)

\* the configurations of a storage: with and without customDomain; the
\* endpoint is optional for s3 only; a bucket may be called "images"
Buckets == {"images", "bkt"}
CustomDomains == {NoUrl, Url(<<"https://cdn.example.com">>, <<>>)}
Endpoints == {NoUrl, Url(<<"https://endpoint.example.com">>, <<>>)}
StorageConfigs ==
    {sc \in [type : AllTypes, bucket : Buckets, customDomain : CustomDomains,
             endpoint : Endpoints] :
        sc.endpoint = NoUrl => sc.type \in {"s3", "qiniu", "upyun", "local"}}

\* fileData.name and customPath ('' | 'transfer/' | a pathPrefix)
FileNames == {"a.png", "photo.final.jpg"}
CustomPaths == {<<>>, <<"transfer", "">>, <<"images">>}

\* `${timestamp}-${random}.${ext}` with ext = originalName.split('.').pop()
BaseName(originalName) ==
    IF originalName = "a.png" THEN "1767312000000-0a1b2c3d4e5f6a7b.png"
    ELSE "1767312000000-0a1b2c3d4e5f6a7b.jpg"

\* StorageService.generateFileName(originalName, customPath)
generateFileName(originalName, customPath) ==
    IF customPath # <<>>
    THEN customPath \o <<BaseName(originalName)>>
    ELSE <<"images", "2026", "01", "02", BaseName(originalName)>>

NoKey == <<>>
Keys == {generateFileName(n, cp) : n \in FileNames, cp \in CustomPaths}
            \cup {<<"2026", "01", "02", BaseName("a.png")>>}

\* the url each adapter returns for a stored object
ProviderUrl(sc, fileName) ==
    CASE sc.type = "cos" -> Join(sc.endpoint, fileName)
      [] sc.type = "oss" -> Url(<<"http://", sc.bucket, ".oss.aliyuncs.com">>, fileName)
      [] sc.type = "s3" ->
            Join(IF sc.endpoint # NoUrl THEN sc.endpoint
                 ELSE Url(<<"https://", sc.bucket, ".s3.", "region", ".amazonaws.com">>, <<>>),
                 fileName)
      [] sc.type = "minio" -> Join(sc.endpoint, <<sc.bucket>> \o fileName)
      [] sc.type = "qiniu" -> Url(<<"https://cdn.qiniu.com">>, fileName)
      [] sc.type = "upyun" -> Url(<<"https://", sc.bucket, ".b0.upaiyun.com">>, fileName)

\* an adapter that never uses customDomain
FileUrlOfProvider(sc, fileName) == ProviderUrl(sc, fileName)

\* fileUrl = customDomain ? `${customDomain}/${fileName}` : <the provider's url>
FileUrl(sc, fileName) ==
    IF sc.customDomain # NoUrl THEN Join(sc.customDomain, fileName)
    ELSE ProviderUrl(sc, fileName)

\* a check that lets every type through to the switch
SupportedAlways(type) == TRUE

\* this.supportedTypes.includes(type)
Supported(type) == type \in supportedTypes

\* extractFileNameFromUrl(fileUrl, storageConfig): new URL(fileUrl).pathname
\* without its leading slash; for minio, without its first segment when that
\* segment is the bucket's name
extractFileNameFromUrl(fileUrl, sc) ==
    LET pathname == fileUrl.path IN
    IF sc.type = "minio" /\ Len(pathname) > 1 /\ pathname[1] = sc.bucket
    THEN Tail(pathname) ELSE pathname

\* {success: false, error: error.message}
ServiceFailure(error) == [success |-> FALSE, error |-> error]
NoServiceResult == [success |-> FALSE, error |-> ""]
MsgUnsupported == "unsupported storage type"
MsgUnimplemented == "storage type not implemented"
MsgAdapter == "adapter error"

\* uploadFile(storageConfig, fileData, customPath) up to its first await: an
\* unsupported type throws inside the try and the catch returns the failure;
\* otherwise the name is generated and the type's adapter sends its request
UploadFile ==
    /\ handler = "service"
    /\ svpc = "idle"
    /\ svBefore' = svObjects
    /\ IF ~Supported(svConfig.type)
       THEN /\ svResult' = ServiceFailure(MsgUnsupported)
            /\ svpc' = "failed"
            /\ UNCHANGED <<svKey, svCalls>>
       ELSE LET fileName == generateFileName(svName, svPath) IN
            /\ svKey' = fileName
            /\ IF svConfig.type \in supportedTypes
               THEN /\ svCalls' = Append(svCalls, [op |-> "put", type |-> svConfig.type,
                                                   key |-> fileName])
                    /\ svpc' = "put"
                    /\ UNCHANGED svResult
               ELSE \* default: throw
                    /\ svResult' = ServiceFailure(MsgUnimplemented)
                    /\ svpc' = "failed"
                    /\ UNCHANGED svCalls
    /\ UNCHANGED <<rbvars, svConfig, svName, svPath, svDelKey, svDelResult, svObjects,
                   pgvars, DB_TYPE, sdvars, stvars, handler, crashed, dbvars, tvars, ivars, statsCall,
                   uvars, vvars, response, dlvars>>

\* the provider answers the put: the object is stored and the adapter returns
\* {success, url, fileName}, or the adapter throws and uploadFile's catch
\* returns the failure
PutReturns ==
    /\ handler = "service"
    /\ svpc = "put"
    /\ \/ /\ svObjects' = svObjects \cup {svKey}
          /\ svResult' = [success |-> TRUE, url |-> FileUrl(svConfig, svKey), fileName |-> svKey]
          /\ svpc' = "uploaded"
       \/ /\ svResult' = ServiceFailure(MsgAdapter)
          /\ svpc' = "failed"
          /\ UNCHANGED svObjects
    /\ UNCHANGED <<rbvars, svConfig, svName, svPath, svKey, svDelKey, svDelResult, svBefore, svCalls,
                   pgvars, DB_TYPE, sdvars, stvars, handler, crashed, dbvars, tvars, ivars, statsCall,
                   uvars, vvars, response, dlvars>>

\* deleteFile(storageConfig, fileName) up to its first await, called with the
\* name the delete routes derive from the stored url, or, when this upload
\* stored nothing, with some key
DeleteFile ==
    /\ handler = "service"
    /\ svpc \in {"idle", "uploaded", "failed"}
    /\ \E fileName \in IF svpc = "uploaded"
                       THEN {extractFileNameFromUrl(svResult.url, svConfig)} ELSE Keys :
        /\ svDelKey' = fileName
        /\ IF ~Supported(svConfig.type)
           THEN /\ svDelResult' = ServiceFailure(MsgUnsupported)
                /\ svpc' = "deleted"
                /\ UNCHANGED svCalls
           ELSE IF svConfig.type \in supportedTypes
           THEN /\ svCalls' = Append(svCalls, [op |-> "delete", type |-> svConfig.type,
                                               key |-> fileName])
                /\ svpc' = "delete"
                /\ UNCHANGED svDelResult
           ELSE /\ svDelResult' = ServiceFailure(MsgUnimplemented)
                /\ svpc' = "deleted"
                /\ UNCHANGED svCalls
    /\ UNCHANGED <<rbvars, svConfig, svName, svPath, svKey, svResult, svObjects, svBefore,
                   pgvars, DB_TYPE, sdvars, stvars, handler, crashed, dbvars, tvars, ivars, statsCall,
                   uvars, vvars, response, dlvars>>

\* the provider answers the delete: the object of that key, if any, is gone
\* and the adapter returns {success: true}, or the adapter throws
DeleteReturns ==
    /\ handler = "service"
    /\ svpc = "delete"
    /\ \/ /\ svObjects' = svObjects \ {svDelKey}
          /\ svDelResult' = [success |-> TRUE]
       \/ /\ svDelResult' = ServiceFailure(MsgAdapter)
          /\ UNCHANGED svObjects
    /\ svpc' = "deleted"
    /\ UNCHANGED <<rbvars, svConfig, svName, svPath, svKey, svResult, svDelKey, svBefore, svCalls,
                   pgvars, DB_TYPE, sdvars, stvars, handler, crashed, dbvars, tvars, ivars, statsCall,
                   uvars, vvars, response, dlvars>>

(***************************************************************************)
(* routes/images.js: DELETE /:id/permanent and DELETE /permanent           *)
(***************************************************************************)
MaxPurge == 3         \* longest id list of a purge request
ImageIds == 1..3
MissingId == 4

\* the config column of a storage_configs row of the given type
ConfigOf(type) ==
    [type |-> type, bucket |-> "bkt", customDomain |-> NoUrl, endpoint |-> NoUrl]

\* the images rows the two upload paths have written for storage 1: two by
\* /api/upload-to-storage and one by transferSingleImage, each with the
\* fileName and the url that uploadFile returned
PurgeKey(id) ==
    IF id = 3 THEN generateFileName("a.png", <<"transfer", "">>)
    ELSE IF id = 2 THEN generateFileName("photo.final.jpg", <<>>)
    ELSE generateFileName("a.png", <<>>)
PurgeRows ==
    [id \in ImageIds |->
        [(IF id = 3 THEN TransferRecord(id, UrlAny, PurgeKey(id), 1, 1)
          ELSE CloudRecord(id, [name |-> "a.png", size |-> 1], PurgeKey(id), 1))
         EXCEPT !.filename = PurgeKey(id),
                !.fileUrl = FileUrl(ConfigOf("s3"), PurgeKey(id))]]

\* imageDB.getById(id, true)
getById(table, id) == IF id \in ImageIds /\ PurgeRows[id] \in table THEN id ELSE 0

\* if (image.storage_id && image.upload_type === 'storage')
ShouldDeleteObject(image) == image.storageId # NoStorage /\ image.uploadType = "storage"

\* the handler up to its first await (the caller is an admin)
PermanentDelete ==
    /\ handler = "purge"
    /\ pgpc = "call"
    /\ IF pgIds = <<>>
       THEN /\ response' = ErrorResponse(400, "no ids")
            /\ pgpc' = "responded"
            /\ UNCHANGED pgAt
       ELSE /\ pgpc' = "getById"
            /\ pgAt' = 1
            /\ UNCHANGED response
    /\ UNCHANGED <<rbvars, pgRoute, pgIds, pgDeleted, deleteFileCalls, svvars, DB_TYPE, sdvars, stvars,
                   handler, crashed, dbvars, tvars, ivars, statsCall, uvars, vvars, dlvars>>

\* the loop goes on to the next id, or the handler answers
PurgeNext(deleted) ==
    IF pgAt < Len(pgIds)
    THEN /\ pgAt' = pgAt + 1
         /\ pgpc' = "getById"
         /\ UNCHANGED response
    ELSE /\ pgpc' = "responded"
         /\ response' = [status |-> 200, success |-> TRUE, data |-> deleted]
         /\ UNCHANGED pgAt

\* imageDB.getById returns.  Without a row: 404, or the batch notes the error
\* and goes on.  With a row: when the test on storage_id and upload_type
\* passes, getStorage, extractFileNameFromUrl and storageService.deleteFile
\* run (a failure is only logged); then imageDB.permanentDelete is called.
GetByIdReturns ==
    /\ handler = "purge"
    /\ pgpc = "getById"
    /\ LET id == getById(images, pgIds[pgAt]) IN
        IF id = 0
        THEN /\ IF pgRoute = "single"
                THEN /\ response' = ErrorResponse(404, "image does not exist")
                     /\ pgpc' = "responded"
                     /\ UNCHANGED pgAt
                ELSE PurgeNext(pgDeleted)
             /\ UNCHANGED <<bucket, deleteFileCalls>>
        ELSE /\ pgpc' = "permanentDelete"
             /\ UNCHANGED <<pgAt, response>>
             /\ IF ShouldDeleteObject(PurgeRows[id])
                      /\ getStorage(storage_configs, PurgeRows[id].storageId) # NoStorage
                THEN LET storageConfig == ConfigOf(storage_configs[PurgeRows[id].storageId].type)
                         fileName == extractFileNameFromUrl(PurgeRows[id].fileUrl, storageConfig)
                     IN  /\ deleteFileCalls' = deleteFileCalls \cup {fileName}
                         /\ \E ok \in BOOLEAN :
                               bucket' = IF ok THEN bucket \ {fileName} ELSE bucket
                ELSE UNCHANGED <<bucket, deleteFileCalls>>
    /\ UNCHANGED <<rbvars, pgRoute, pgIds, pgDeleted, svvars, DB_TYPE, sdvars, stvars, handler, crashed,
                   storage_configs, images, upload_stats, disk, tvars, ivars, statsCall, uvars,
                   vvars, dlvars>>

\* imageDB.permanentDelete(id) returns: the row is gone
PermanentDeleteReturns ==
    /\ handler = "purge"
    /\ pgpc = "permanentDelete"
    /\ images' = images \ {PurgeRows[pgIds[pgAt]]}
    /\ pgDeleted' = Append(pgDeleted, pgIds[pgAt])
    /\ PurgeNext(Append(pgDeleted, pgIds[pgAt]))
    /\ UNCHANGED <<rbvars, pgRoute, pgIds, deleteFileCalls, svvars, DB_TYPE, sdvars, stvars, handler,
                   crashed, storage_configs, upload_stats, bucket, disk, tvars, ivars, statsCall,
                   uvars, vvars, dlvars>>

(***************************************************************************)
(* Specification.                                                          *)
(***************************************************************************)
SeqsUpTo(S, n) == UNION {[1..m -> S] : m \in 0..n}

\* the state of a server that is serving one request of the kinds in `handlers`
InitServingWith(handlers, tables, urlSet, fileSet) ==
    /\ handler \in handlers
    /\ crashed = FALSE
    /\ storage_configs \in IF handler = "storage" THEN {InitialStorages} ELSE tables
    /\ stored = {}
    /\ DB_TYPE \in IF handler \in {"storage", "stats"} THEN {"postgres", "sqlite"} ELSE {"postgres"}
    /\ sdpc = [c \in Clients |-> "idle"]
    /\ sdId = [c \in Clients |-> NoStorage]
    /\ sdRows = [c \in Clients |-> {}]
    /\ sdWrites = [c \in Clients |-> NoWrites]
    /\ images \in IF handler = "purge"
                  THEN {{PurgeRows[id] : id \in ids} : ids \in SUBSET ImageIds} ELSE {{}}
    /\ upload_stats \in IF handler = "stats" THEN {NoStats, InitialStats} ELSE {InitialStats}
    /\ stpc = [c \in Clients |-> "idle"]
    /\ stArgs = [c \in Clients |-> NoArgs]
    /\ stBefore = upload_stats
    /\ stCalls = <<>>
    /\ stDone = <<>>
    /\ stFailed = FALSE
    \* uploadFile(storageConfig, fileData, customPath)
    /\ svConfig \in IF handler = "service" THEN StorageConfigs ELSE {ConfigOf("s3")}
    /\ svName \in IF handler = "service" THEN FileNames ELSE {"a.png"}
    /\ svPath \in IF handler = "service" THEN CustomPaths ELSE {<<>>}
    /\ svpc = "idle"
    /\ svKey = NoKey
    /\ svResult = NoServiceResult
    /\ svDelKey = NoKey
    /\ svDelResult = NoServiceResult
    /\ svObjects \in IF handler = "service"
                     THEN {{}, {<<"2026", "01", "02", BaseName("a.png")>>}} ELSE {{}}
    /\ svBefore = svObjects
    /\ svCalls = <<>>
    \* req.params.id or req.body.ids of the purge routes
    /\ pgRoute \in IF handler = "purge" THEN {"single", "batch"} ELSE {"single"}
    /\ pgIds \in IF handler # "purge" THEN {<<>>}
                 ELSE IF pgRoute = "single" THEN {<<id>> : id \in ImageIds \cup {MissingId}}
                 ELSE SeqsUpTo(ImageIds \cup {MissingId}, MaxPurge)
    /\ pgpc = "call"
    /\ pgAt = 0
    /\ pgDeleted = <<>>
    /\ deleteFileCalls = {}
    /\ bucket = {r.filePath : r \in images}
    /\ disk = {}
    /\ statsCall = "none"
    /\ response = NoResponse
    \* transferImages(urls, uploadDir, baseUrl, userId)
    /\ urls \in IF handler = "transfer" THEN SeqsUpTo(urlSet, MaxUrls) ELSE {<<>>}
    /\ tpc = "call"
    /\ chunkNo = 0
    /\ results = <<>>
    /\ successCount = 0
    /\ totalSize = 0
    /\ pc = [i \in DOMAIN urls |-> "pending"]
    /\ tempFilePath = [i \in DOMAIN urls |-> FALSE]
    /\ streamSize = [i \in DOMAIN urls |-> 0]
    /\ defaultStorage = [i \in DOMAIN urls |-> NoStorage]
    /\ itemResult = [i \in DOMAIN urls |-> NoResult]
    \* req.body of /api/upload-to-storage
    /\ files \in IF handler = "upload" THEN SeqsUpTo(fileSet, MaxFiles) ELSE {<<>>}
    /\ storageId \in IF handler = "upload" THEN {NoStorage} \cup StorageIds ELSE {NoStorage}
    /\ upc = "call"
    /\ batchStart = 0
    /\ uploadedFiles = <<>>
    /\ upSuccessCount = 0
    /\ upTotalSize = 0
    /\ fpc = [k \in DOMAIN files |-> "pending"]
    /\ fileResult = [k \in DOMAIN files |-> NoResult]
    \* req.body of /api/validate-urls
    /\ vurls \in IF handler = "validate" THEN SeqsUpTo({UrlAny}, MaxValidate) ELSE {<<>>}
    /\ vpc = "call"
    /\ vchunkNo = 0
    /\ vresults = <<>>
    /\ vitem = [i \in DOMAIN vurls |-> "pending"]
    /\ validation = [i \in DOMAIN vurls |-> NoResult]
    \* downloadImage(url)
    /\ dlUrl \in IF handler = "download" THEN URLS \cup {UrlHotlink} ELSE {UrlAny}
    /\ dlpc = "call"
    /\ dlRetryCount = 0
    /\ dlError = NoError
    /\ dlRequests = 0
    /\ dlLog = <<>>
    /\ dlSent = <<>>
    /\ dlElapsed = 0

InitServing(handlers) == InitServingWith(handlers, StorageTables, URLS, FILES)

Init == InitServing({"transfer", "upload", "validate"})

Next ==
    \/ TransferImages
    \/ \E i \in Items : DownloadReturns(i)
    \/ \E i \in Items : StreamFinish(i)
    \/ \E i \in Items : StreamOverflow(i)
    \/ \E i \in Items : StreamError(i)
    \/ \E i \in Items : GetDefaultStorageReturns(i)
    \/ \E i \in Items : UploadFileReturns(i)
    \/ \E i \in Items : ImageCreateReturns(i)
    \/ ChunkSettled
    \/ PauseElapsed
    \/ TransferStatsReturns
    \/ UploadToStorage
    \/ GetStorageReturns
    \/ \E k \in FileItems : FileUploadReturns(k)
    \/ \E k \in FileItems : FileCreateReturns(k)
    \/ BatchSettled
    \/ UploadStatsReturns
    \/ ValidateUrls
    \/ \E i \in VUrlItems : HeadSettles(i)
    \/ VChunkSettled

Spec == Init /\ [][Next]_vars

\* A batch that runs while other requests change the default configuration:
\* configurations 1 and 2 are both active and one of them is the default.
TwoActiveStorages ==
    { [id \in StorageIds |->
          [type |-> IF id = 1 THEN "s3" ELSE "cos", is_default |-> (id = d), is_active |-> TRUE]]
      : d \in StorageIds }

\* PUT /api/storage/:id/default of another request: its setDefaultStorage(id)
\* commits
SetDefaultStorageCommitted ==
    /\ handler \in {"transfer", "upload"} /\ ~crashed
    /\ \E id \in StorageIds :
        /\ setDefaultStorageSqlite(storage_configs, id) # storage_configs
        /\ storage_configs' = setDefaultStorageSqlite(storage_configs, id)
    /\ UNCHANGED <<morevars, dlvars, handler, crashed, images, upload_stats, bucket, disk, tvars, ivars,
                   statsCall, uvars, vvars, response>>

InitRebind == InitServingWith({"transfer", "upload"}, TwoActiveStorages, {UrlAny}, {CHOOSE f \in FILES : TRUE})
NextRebind ==
    \/ SetDefaultStorageCommitted
    \/ TransferImages
    \/ \E i \in Items : DownloadReturns(i)
    \/ \E i \in Items : StreamFinish(i)
    \/ \E i \in Items : StreamOverflow(i)
    \/ \E i \in Items : StreamError(i)
    \/ \E i \in Items : GetDefaultStorageReturns(i)
    \/ \E i \in Items : UploadFileReturns(i)
    \/ \E i \in Items : ImageCreateReturns(i)
    \/ ChunkSettled
    \/ PauseElapsed
    \/ TransferStatsReturns
    \/ UploadToStorage
    \/ GetStorageReturns
    \/ \E k \in FileItems : FileUploadReturns(k)
    \/ \E k \in FileItems : FileCreateReturns(k)
    \/ BatchSettled
    \/ UploadStatsReturns
SpecRebind == InitRebind /\ [][NextRebind]_vars

\* one call of downloadImage on its own
InitDownload == InitServing({"download"})
NextDownload == DownloadImage \/ DlAxiosSettles \/ DlBackoffElapsed
SpecDownload == InitDownload /\ [][NextDownload]_vars

\* every request settles (response, error or timeout) and every timer fires
SpecDownloadFair ==
    /\ InitDownload /\ [][NextDownload]_vars
    /\ WF_vars(DownloadImage) /\ WF_vars(DlAxiosSettles) /\ WF_vars(DlBackoffElapsed)

\* the storage routes, called by concurrent requests
InitStorage == InitServing({"storage"})
NextStorage ==
    \/ CreateStorage
    \/ UpdateStorage
    \/ DeleteStorage
    \/ \E c \in Clients : SetDefaultStorage(c)
    \/ \E c \in Clients : SetDefaultSettles(c)
    \/ \E c \in Clients : ClearDefaultDone(c)
    \/ \E c \in Clients : SetDefaultDone(c)
    \/ \E c \in Clients : Commit(c)
    \/ \E c \in Clients : Rollback(c)
SpecStorage == InitStorage /\ [][NextStorage]_vars

\* the storage routes with one setDefaultStorage call at a time, among the
\* single statements of other requests
NextStorageCalls ==
    \/ CreateStorage
    \/ UpdateStorage
    \/ DeleteStorage
    \/ SetDefaultStorage(1)
    \/ SetDefaultSettles(1)
    \/ ClearDefaultDone(1)
    \/ SetDefaultDone(1)
    \/ Commit(1)
    \/ Rollback(1)
SpecStorageCalls == InitStorage /\ [][NextStorageCalls]_vars

\* statsDB.updateDailyStats, called by concurrent requests
InitStats == InitServing({"stats"})
NextStats ==
    \/ \E c \in Clients : UpdateDailyStats(c)
    \/ \E c \in Clients : UpsertDone(c)
SpecStats == InitStats /\ [][NextStats]_vars

\* StorageService.uploadFile and deleteFile on one storage configuration
InitService == InitServing({"service"})
NextService == UploadFile \/ PutReturns \/ DeleteFile \/ DeleteReturns
SpecService == InitService /\ [][NextService]_vars

\* the administrative purge routes
InitPurge == InitServing({"purge"})
NextPurge == PermanentDelete \/ GetByIdReturns \/ PermanentDeleteReturns
SpecPurge == InitPurge /\ [][NextPurge]_vars


(***************************************************************************)
(* Properties.                                                             *)
(***************************************************************************)
Uploaded(i) == ObjectKey("transfer/", i) \in bucket
Recorded(i) == \E r \in images : r.filename = TempFile(i) /\ r.uploadType = "transfer"
FileUploaded(k) == ObjectKey("images/", k) \in bucket
FileRecorded(k) == \E r \in images : r.filename = ObjectKey("images/", k) /\ r.uploadType = "cloud"

\* C1: an item is reported success:true only if the adapter upload for that
\* item succeeded and imageDB.create for it completed, in transferImages and
\* in /api/upload-to-storage; an item whose imageDB.create fails after a
\* successful upload is reported success:false.
C1_SuccessOnlyIfStoredAndRecorded ==
    /\ \A i \in Items : pc[i] = "returned" =>
          /\ itemResult[i].success => Uploaded(i) /\ Recorded(i)
          /\ Uploaded(i) /\ ~Recorded(i) => ~itemResult[i].success
    /\ \A n \in DOMAIN results : results[n].success => Uploaded(n) /\ Recorded(n)
    /\ \A k \in FileItems : fpc[k] = "returned" =>
          /\ fileResult[k].success => FileUploaded(k) /\ FileRecorded(k)
          /\ FileUploaded(k) /\ ~FileRecorded(k) => ~fileResult[k].success
    /\ response.status = 200 /\ handler = "upload" =>
          \A n \in DOMAIN response.data :
              response.data[n].success => FileUploaded(n) /\ FileRecorded(n)

\* an orphaned remote object reported as a failure, next to a real success
C1_Witness ==
    /\ tpc = "done"
    /\ \E i \in Items : Uploaded(i) /\ ~Recorded(i) /\ ~results[i].success
    /\ \E i \in Items : results[i].success

InFlight == {i \in Items : pc[i] \notin {"pending", "returned"}}
FilesInFlight == {k \in FileItems : fpc[k] \notin {"pending", "returned"}}
HeadsInFlight == {i \in VUrlItems : vitem[i] \notin {"pending", "returned"}}

\* C4: work is admitted in consecutive windows of 3 (transferImages,
\* /api/upload-to-storage) and 5 (/api/validate-urls): no item of a window
\* has started before every item of the earlier windows has settled, and at
\* most 3 (5) items are in flight.
C4_WindowedAdmission ==
    /\ Cardinality(InFlight) <= 3
    /\ Cardinality(FilesInFlight) <= 3
    /\ Cardinality(HeadsInFlight) <= 5
    /\ \A i, j \in Items :
          pc[i] # "pending" /\ (j - 1) \div 3 < (i - 1) \div 3 => pc[j] = "returned"
    /\ \A i, j \in FileItems :
          fpc[i] # "pending" /\ (j - 1) \div 3 < (i - 1) \div 3 => fpc[j] = "returned"
    /\ \A i, j \in VUrlItems :
          vitem[i] # "pending" /\ (j - 1) \div 5 < (i - 1) \div 5 => vitem[j] = "returned"

\* an item of the second window is in flight
C4_Witness == \E i \in Items : i > 3 /\ pc[i] = "save"

\* C5: downloadImage issues at most 3 HTTP attempts in total.
C5_AtMostThreeAttempts == dlRequests <= 3

\* C6: an attempt that fails validation (content type, declared length) is
\* not retried: downloadImage throws at once, without a delay and without a
\* further request.
C6_ValidationFailureNotRetried ==
    dlLog # <<>> /\ dlLog[Len(dlLog)] \in ValidationErrors => dlpc = "thrown"

\* C7: when the bytes streamed exceed 50 MiB, saveImageToLocal removes the
\* partial file and rejects, so that the item is a failed result of the batch.
C7_OverflowIsReportedFailure ==
    \A i \in Items : streamSize[i] > SizeLimit =>
        /\ TempFile(i) \notin disk
        /\ pc[i] = "returned" /\ ~itemResult[i].success

\* C8: for a url whose response declares a Content-Length above 50 MiB the
\* fetch fails with the too-large error and saveImageToLocal is never
\* reached: no temp file of the item is written.
C8_DeclaredTooLargeNeverSaved ==
    \A i \in Items : urls[i] = UrlBig =>
        /\ pc[i] \in {"pending", "downloadImage", "returned"}
        /\ TempFile(i) \notin disk
        /\ pc[i] = "returned" => itemResult[i] = FailureResult(UrlBig, MsgTooLarge)

C8_Witness ==
    /\ tpc = "done"
    /\ \E i \in Items : urls[i] = UrlBig /\ results[i].message = MsgTooLarge
    /\ \E i \in Items : results[i].success

\* the successes of a result list and the sum of their sizes
Successes(rs) == {n \in DOMAIN rs : rs[n].success}
RECURSIVE SizeOf(_, _)
SizeOf(rs, ns) ==
    IF ns = {} THEN 0
    ELSE LET n == CHOOSE m \in ns : TRUE IN rs[n].size + SizeOf(rs, ns \ {n})

\* C9: when the repository call succeeds, a transferImages batch adds the
\* number of its success:true items to the day's transfer_count and the sum
\* of their sizes to total_size (upload_count is left alone); a batch without
\* a success does not call updateDailyStats and leaves the stats unchanged.
C9_StatsCountSuccesses ==
    handler = "transfer" =>
        /\ tpc # "done" => upload_stats = InitialStats /\ statsCall = "none"
        /\ tpc = "done" /\ statsCall = "ok" =>
              upload_stats = (Today :>
                 [upload_count |-> InitialStats[Today].upload_count,
                  total_size |-> InitialStats[Today].total_size
                                    + SizeOf(results, Successes(results)),
                  transfer_count |-> InitialStats[Today].transfer_count
                                    + Cardinality(Successes(results))])
        /\ tpc = "done" /\ statsCall # "ok" => upload_stats = InitialStats
        /\ tpc = "done" /\ Successes(results) = {} => statsCall = "none"
        /\ tpc = "updateDailyStats" => Successes(results) # {}

\* a batch with two successes of different sizes and a failure
C9_Witness ==
    /\ handler = "transfer" /\ tpc = "done" /\ statsCall = "ok"
    /\ Cardinality(Successes(results)) = 2
    /\ SizeOf(results, Successes(results)) = 3
    /\ Len(results) > 2

FetchMessages == {MsgInvalidUrl, MsgNetwork, MsgStatus, MsgContentType, MsgTooLarge}

Running == {"downloadImage", "save", "getDefaultStorage", "uploadFile", "create"}

\* C11: the failure of one item never cancels another item of its window: when
\* an item has failed while its body was streamed, no sibling of the same
\* window is left with a call that is still running and will never settle.
C11_SiblingFailureCancelsNothing ==
    \A i, j \in Items :
        i # j /\ (i - 1) \div concurrency = (j - 1) \div concurrency /\ pc[i] = "aborted"
            => pc[j] \notin Running

\* the active configurations that are marked default in the committed table
ActiveDefaults == {id \in DOMAIN storage_configs :
                      storage_configs[id].is_default /\ storage_configs[id].is_active}

\* C12: after any interleaving of createStorage, updateStorage,
\* setDefaultStorage and deleteStorage calls, two concurrent setDefaultStorage
\* transactions included, at most one active configuration is the default.
C12_AtMostOneActiveDefault == Cardinality(ActiveDefaults) <= 1

\* the sum of a counter over the calls of a list that name the date
RECURSIVE SumOf(_, _, _)
SumOf(calls, date, counter) ==
    IF calls = <<>> THEN 0
    ELSE (IF Head(calls).date = date THEN Head(calls).inc[counter] ELSE 0)
         + SumOf(Tail(calls), date, counter)

\* a counter of the date's row, 0 without a row
Counter(table, date, column) == IF date \in DOMAIN table THEN table[date][column] ELSE 0

\* the date's counters are those of `before` plus the increments of `calls`
Accumulated(before, calls, date) ==
    /\ Counter(upload_stats, date, "upload_count")
          = Counter(before, date, "upload_count") + SumOf(calls, date, "uploadCount")
    /\ Counter(upload_stats, date, "total_size")
          = Counter(before, date, "total_size") + SumOf(calls, date, "totalSize")
    /\ Counter(upload_stats, date, "transfer_count")
          = Counter(before, date, "transfer_count") + SumOf(calls, date, "transferCount")

\* C13: when requests call updateDailyStats concurrently for a date, no call
\* fails, and once they all have returned the counters are the previous
\* values plus the increments of every call made, on PostgreSQL and on SQLite.
C13_ConcurrentIncrementsAllCounted ==
    handler = "stats" =>
        /\ ~stFailed
        /\ (\A c \in Clients : stpc[c] = "idle") =>
              \A date \in Dates : Accumulated(stBefore, stCalls, date)

\* two calls for the same date that were in flight together and were executed
\* in the other order than they were made, with and without a previous row
C13_Witness ==
    /\ handler = "stats" /\ \A c \in Clients : stpc[c] = "idle"
    /\ Len(stCalls) = 2 /\ Len(stDone) = 2
    /\ stCalls[1].date = stCalls[2].date /\ stCalls[1] # stCalls[2]
    /\ stDone[1] = stCalls[2]
    /\ stCalls[1].date \notin DOMAIN stBefore

\* C14: updateDailyStats accumulates: after any sequence of calls the row of
\* a date holds the sums of the increments of the calls executed for that
\* date (on top of the row the date had), a date without calls keeps its row
\* or has none, and a date gets a row with its first call.
C14_RowIsSumOfIncrements ==
    handler = "stats" =>
        \A date \in Dates :
            /\ Accumulated(stBefore, stDone, date)
            /\ (date \in DOMAIN upload_stats)
                  = (date \in DOMAIN stBefore \/ \E n \in DOMAIN stDone : stDone[n].date = date)

\* two calls (date, 1, 100, 0) on a date without a row give upload_count 2 and
\* total_size 200, and the other date's row is as it was
C14_Witness ==
    /\ handler = "stats" /\ stBefore = InitialStats
    /\ Len(stDone) = 2
    /\ \A n \in DOMAIN stDone :
          stDone[n] = [date |-> Tomorrow,
                       inc |-> [uploadCount |-> 1, totalSize |-> 100, transferCount |-> 0]]
    /\ upload_stats[Tomorrow].upload_count = 2 /\ upload_stats[Tomorrow].total_size = 200
    /\ upload_stats[Today] = InitialStats[Today]

\* C17: uploadFile and deleteFile called with a type outside cos, oss, qiniu,
\* upyun, s3, minio return {success: false, error} without throwing, without
\* generating a key and without calling an adapter.
C17_UnsupportedTypeFailsFast ==
    handler = "service" /\ svConfig.type \notin {"cos", "oss", "qiniu", "upyun", "s3", "minio"} =>
        /\ svpc \in {"idle", "failed", "deleted"}
        /\ svKey = NoKey /\ svCalls = <<>> /\ svObjects = svBefore
        /\ svpc = "failed" => ~svResult.success /\ svResult.error = MsgUnsupported
        /\ svpc = "deleted" => ~svDelResult.success /\ svDelResult.error = MsgUnsupported

\* both calls made with an unsupported type
C17_Witness ==
    /\ handler = "service" /\ svConfig.type = "local" /\ svpc = "deleted"
    /\ svResult = ServiceFailure(MsgUnsupported) /\ svDelResult = ServiceFailure(MsgUnsupported)

\* C18: for each supported type and each valid configuration, with or without
\* customDomain, uploadFile followed by deleteFile of the key that
\* extractFileNameFromUrl derives from the stored url leaves the backend with
\* the objects it had before: the derived key is the uploaded key.
C18_UploadThenDeleteRestoresBackend ==
    handler = "service" /\ svResult.success /\ svpc \in {"delete", "deleted"} =>
        /\ svDelKey = svKey
        /\ svpc = "deleted" /\ svDelResult.success => svObjects = svBefore

\* the segments `suffix` end the path
EndsWith(path, suffix) ==
    /\ Len(path) >= Len(suffix)
    /\ SubSeq(path, Len(path) - Len(suffix) + 1, Len(path)) = suffix

\* C19: a successful upload returns url = customDomain + "/" + objectKey when
\* customDomain is set and otherwise a url of the provider's endpoint that
\* holds the objectKey; the fileName returned is the key that was written.
C19_UrlFromCustomDomainOrProvider ==
    handler = "service" /\ svResult.success =>
        /\ svResult.fileName = svKey
        /\ svCalls[1] = [op |-> "put", type |-> svConfig.type, key |-> svResult.fileName]
        /\ svpc = "uploaded" => svResult.fileName \in svObjects
        /\ IF svConfig.customDomain # NoUrl
           THEN svResult.url = Url(svConfig.customDomain.origin,
                                   svConfig.customDomain.path \o svKey)
           ELSE /\ svResult.url.origin # <<>>
                /\ svConfig.endpoint # NoUrl /\ svConfig.type \in {"cos", "minio", "s3"}
                      => svResult.url.origin = svConfig.endpoint.origin
                /\ EndsWith(svResult.url.path, svKey)

\* an upload to minio under a customDomain, with a prefix that ends in a slash
C19_Witness ==
    /\ handler = "service" /\ svpc = "uploaded" /\ svConfig.type = "minio"
    /\ svConfig.customDomain # NoUrl /\ svPath = <<"transfer", "">>
    /\ svResult.url.path = <<"transfer", "", BaseName(svName)>>

\* C15: the permanent-delete routes call StorageService.deleteFile for the
\* object of every record that the upload-to-storage or the transfer path
\* created (a storage id, uploadType 'cloud' or 'transfer') before they
\* remove the record.
C15_PurgeDeletesStoredObject ==
    handler = "purge" =>
        \A id \in ImageIds :
            /\ PurgeRows[id] \notin images
            /\ \E n \in DOMAIN pgDeleted : pgDeleted[n] = id
            /\ PurgeRows[id].storageId # NoStorage
            /\ PurgeRows[id].uploadType \in {"cloud", "transfer"}
            => PurgeRows[id].filePath \in deleteFileCalls

\* C16: once a batch request has passed its pre-flight checks the handler
\* answers with HTTP success, one result per item and a summary with
\* total = success + failed; it answers with an error status only when no
\* item was uploaded or persisted.
C16_ErrorStatusOnlyWithoutProgress ==
    handler = "upload" =>
        /\ response.status = 200 =>
              /\ Len(response.data) = Len(files)
              /\ response.summary.total = Len(files)
              /\ response.summary.total = response.summary.success + response.summary.failed
        /\ response.status >= 400 => bucket = {} /\ images = {}


\* C20: across the attempts of one downloadImage call the header set only
\* shrinks: attempt 1 sends User-Agent and the Referer of the domain, attempt
\* 2 sends no Referer value, attempt 3 sends User-Agent alone, and no attempt
\* after the first sends the Referer again.
C20_HeadersOnlyShrink ==
    \A n \in DOMAIN dlSent :
        /\ Sends(dlSent[n], "User-Agent")
        /\ n = 1 /\ WellFormed(dlUrl) => Sends(dlSent[n], "Referer")
        /\ n > 1 => ~Sends(dlSent[n], "Referer")
        /\ n > 1 => Sent(dlSent[n]) \subseteq Sent(dlSent[n - 1])
        /\ n = 3 => Sent(dlSent[n]) = {"User-Agent"}

\* the state of the per-item machine that a position of transferSingleImage
\* and its result stand for: the fetch is downloadImage and saveImageToLocal,
\* the store is the storage try block (default lookup, uploadFile), and a
\* returned failure is named by the stage whose error it carries
StoreMessages == {MsgNoDefault} \cup UploadMessages
ItemState(at, result) ==
    CASE at = "pending" -> "Pending"
      [] at \in {"downloadImage", "save"} -> "Fetching"
      [] at \in {"getDefaultStorage", "uploadFile"} -> "Storing"
      [] at = "create" -> "PersistingMetadata"
      [] at = "returned" ->
            IF result.success THEN "Done"
            ELSE IF result.message \in CreateMessages THEN "MetadataFailed"
            ELSE IF result.message \in StoreMessages THEN "StoreFailed"
            ELSE "FetchFailed"
      [] OTHER -> "Interrupted"

\* the arrows of the machine (Fetched and Stored are passed within one step)
ItemMoves ==
    {<<"Pending", "Fetching">>, <<"Pending", "FetchFailed">>,
     <<"Fetching", "Storing">>, <<"Fetching", "FetchFailed">>,
     <<"Storing", "PersistingMetadata">>, <<"Storing", "StoreFailed">>,
     <<"PersistingMetadata", "Done">>, <<"PersistingMetadata", "MetadataFailed">>}

\* C21: a transfer item moves only along Pending -> Fetching -> (FetchFailed
\* | Fetched) -> Storing -> (StoreFailed | Stored) -> PersistingMetadata ->
\* (Done | MetadataFailed): no store before a completed fetch, no metadata
\* write before a successful store, one terminal state, success only in Done,
\* and every failure carries a reason in the batch result.
C21_ItemStateMachine ==
    /\ [][\A i \in Items :
            LET from == ItemState(pc[i], itemResult[i])
                to == ItemState(pc'[i], itemResult'[i])
            IN  from # to => <<from, to>> \in ItemMoves]_vars
    /\ [](\A i \in Items :
            /\ pc[i] = "uploadFile" => tempFilePath[i]
            /\ pc[i] = "create" => Uploaded(i)
            /\ pc[i] = "returned" /\ itemResult[i].success => Uploaded(i) /\ Recorded(i)
            /\ pc[i] = "returned" /\ ~itemResult[i].success => itemResult[i].message # <<>>
            /\ tpc = "done" => results[i] = itemResult[i])

\* what a result entry tells about the failure, apart from the item's identity
Evidence(result) ==
    [f \in (DOMAIN result) \ {"originalUrl", "originalName", "size", "index"} |-> result[f]]

C23_RefererRejectionPassedByAttemptTwo ==
    dlUrl = UrlHotlink =>
        /\ dlRequests <= 2
        /\ dlpc # "thrown"
        /\ dlRequests >= 1 /\ dlpc # "axios" => dlLog[1] = MsgStatus
        /\ dlpc = "returned" => dlRequests = 2 /\ dlLog = <<MsgStatus, NoError>>

C23_Witness == dlUrl = UrlHotlink /\ dlpc = "returned" /\ dlRetryCount = 1

\* C24: the per-attempt timeouts (30 s each) and the delays between the
\* attempts of one downloadImage call add up to at most 96 s, whatever the
\* attempts' outcomes.
C24_WorstCaseWithin96Seconds == dlElapsed <= 96000

\* C25: provided every attempt completes, a downloadImage call terminates,
\* and when all attempts failed it throws the error of the last attempt made.
C25_TerminatesWithLastError ==
    /\ <>(dlpc \in {"returned", "thrown"})
    /\ [](dlpc = "thrown" =>
            /\ Len(dlLog) = dlRequests
            /\ \A n \in DOMAIN dlLog : dlLog[n] # NoError
            /\ dlError = dlLog[Len(dlLog)])

\* all attempts failed, the last for another reason than the first
C25_Witness == dlpc = "thrown" /\ dlLog[1] # dlLog[Len(dlLog)]

\* C26: for a malformed url transferSingleImage records an item failure
\* without a request (downloadImage is never called, so there is no retry and
\* no delay), without a temp file, an uploaded object or an ImageRecord.
C26_MalformedUrlFailsWithoutIO ==
    \A i \in Items : urls[i] = UrlMalformed =>
        /\ pc[i] \in {"pending", "returned"}
        /\ pc[i] = "returned" => itemResult[i] = FailureResult(UrlMalformed, MsgInvalidUrl)
        /\ TempFile(i) \notin disk
        /\ ~Uploaded(i) /\ ~Recorded(i)
        /\ \A r \in images : r.originalUrl # UrlMalformed

\* a finished batch with a malformed url next to a transferred one
C26_Witness ==
    /\ tpc = "done"
    /\ \E i \in Items : urls[i] = UrlMalformed /\ results[i].message = MsgInvalidUrl
    /\ \E i \in Items : results[i].success

\* C27: a transferImages or upload-to-storage batch creates as many
\* ImageRecords as it has success:true entries: one record per successful
\* item, none for a failed item; a transfer record has uploadType 'transfer'
\* and the item's source url as originalUrl.
C27_OneRecordPerSuccess ==
    /\ handler = "transfer" =>
          /\ Cardinality(images) =
                Cardinality({i \in Items : pc[i] = "returned" /\ itemResult[i].success})
          /\ \A i \in Items : pc[i] = "returned" =>
                (itemResult[i].success <=> \E r \in images : r.filename = TempFile(i))
          /\ \A r \in images :
                /\ r.uploadType = "transfer"
                /\ \E i \in Items : r.filename = TempFile(i) /\ r.originalUrl = urls[i]
          /\ tpc = "done" => Cardinality(images) = Cardinality(Successes(results))
    /\ handler = "upload" =>
          /\ Cardinality(images) =
                Cardinality({k \in FileItems : fpc[k] = "returned" /\ fileResult[k].success})
          /\ \A k \in FileItems : fpc[k] = "returned" =>
                (fileResult[k].success <=> \E r \in images : r.filename = ObjectKey("images/", k))
          /\ response.status = 200 =>
                Cardinality(images) = Cardinality(Successes(response.data))

\* a finished transfer batch with two records and two failures
C27_Witness ==
    /\ handler = "transfer" /\ tpc = "done"
    /\ Cardinality(images) = 2 /\ Len(results) = 4

\* C28: setDefaultStorage(id) for an id that does not exist or is inactive
\* fails with an error and leaves every is_default flag as it was: the
\* clearing update is rolled back.
C28_FailedSetDefaultChangesNothing ==
    [][\A c \in Clients :
          \* SQLite: the call, in one step
          /\ sdpc[c] = "idle" /\ sdpc'[c] \in {"threw", "returned"}
             /\ DefaultTargets(storage_configs, sdId'[c]) = {}
             => sdpc'[c] = "threw" /\ storage_configs' = storage_configs
          \* PostgreSQL: no COMMIT for such an id, and up to the ROLLBACK the
          \* transaction changes no committed row
          /\ sdpc'[c] = "commit"
             => sdId'[c] \in DOMAIN storage_configs /\ Latest(c)'[sdId'[c]].is_active
          /\ sdpc[c] \in {"clear", "set", "rollback"} /\ sdpc'[c] # sdpc[c]
             => storage_configs' = storage_configs
          /\ sdpc[c] = "rollback" /\ sdpc'[c] = "idle"
             => sdWrites'[c] = NoWrites]_vars

\* a transaction that has cleared the default, found its id inactive and is
\* about to roll back
C28_Witness ==
    \E c \in Clients :
        /\ sdpc[c] = "rollback"
        /\ sdId[c] \in DOMAIN storage_configs /\ ~storage_configs[sdId[c]].is_active
        /\ \E r \in DOMAIN sdWrites[c] : storage_configs[r].is_default

\* C29: once a default configuration is set, getDefaultStorage returns an
\* active configuration after any sequence of setDefaultStorage,
\* updateStorage, createStorage and deleteStorage calls: deleteStorage never
\* deactivates the default, and a default configuration is always active.
C29_DefaultStaysAvailable ==
    /\ getDefaultStorage(storage_configs) # NoStorage
    /\ storage_configs[getDefaultStorage(storage_configs)].is_active
    /\ \A id \in DOMAIN storage_configs :
          storage_configs[id].is_default => storage_configs[id].is_active

\* the default has moved to a later configuration and the first one was deleted
C29_Witness ==
    /\ Len(storage_configs) >= 2
    /\ ~storage_configs[1].is_active
    /\ \E id \in DOMAIN storage_configs : id > 1 /\ storage_configs[id].is_default

\* C30: every ImageRecord of a transfer or an upload-to-storage carries the
\* storage id of the configuration that was used for the item's adapter
\* upload, also when setDefaultStorage changes the default while the batch
\* runs.
C30_RecordNamesUsedStorage ==
    \A r \in images : <<r.filePath, r.storageId>> \in stored

\* one batch whose records name different configurations
C30_Witness ==
    /\ tpc = "done"
    /\ \E r, q \in images : r.storageId # q.storageId

====
